---- MODULE Spec2Model ----
(***************************************************************************)
(* Fiscal document emission (emit_nfe / emit_nfse) of mcp-gv, as a state   *)
(* machine.  The store tables (notas_fiscais, notas_fiscais_itens,         *)
(* fiscal_config, fiscal_eventos) are the state; every await of a handler  *)
(* is one atomic step, so that overlapping tool calls interleave exactly   *)
(* where the event loop lets them.                                         *)
(***************************************************************************)
EXTENDS Integers, Sequences, FiniteSets, TLC

VARIABLES
    notas_fiscais,        \* nota id -> row
    notas_fiscais_itens,  \* set of item rows
    fiscal_config,        \* organization -> row, or NoRow when there is none
    fiscal_eventos,       \* sequence of inserted event rows
    focusRequests,        \* requests received by the Focus NFe gateway
    calls,                \* call slot -> position and locals of a tool call
    started,              \* number of tool calls started so far
    maxInFlight,          \* how many tool calls may overlap
    env,                  \* process.env of the server
    insertOutcomes,       \* what the store may answer to an insert of an event
    api_keys,             \* set of rows of the table api_keys
    authCall,             \* position and locals of a call of resolveOrgId
    sessions,             \* the Map sessions of the HTTP server: id -> session
    transports,           \* the transports created: id -> "open" or "closed"
    httpReqs,             \* request slot -> position and locals of an HTTP request
    orcamentos,           \* set of rows of the table orcamentos
    orcamento_itens,      \* set of rows of the table orcamento_itens
    usage,                \* organization -> quotes used and monthly limit
    orcCall,              \* position and locals of a call of create_orcamento
    orcStarted            \* number of create_orcamento calls started so far

\* The state of the fiscal tools.
fiscalVars == <<notas_fiscais, notas_fiscais_itens, fiscal_config, fiscal_eventos,
                focusRequests, calls, started, maxInFlight, insertOutcomes>>

authVars == <<api_keys, authCall>>

httpVars == <<sessions, transports, httpReqs>>

orcVars == <<orcamentos, orcamento_itens, usage, orcCall, orcStarted>>

\* The state outside the fiscal tools.
outros == <<authVars, httpVars, orcVars>>

vars == <<notas_fiscais, notas_fiscais_itens, fiscal_config, fiscal_eventos,
          focusRequests, calls, started, maxInFlight, env, insertOutcomes, outros>>

(* ------------------------------ bounds --------------------------------- *)

MaxCalls == 2
MaxItens == 1
MaxOrcamentos == 2
Hoje == 2

(* ------------------------------ values --------------------------------- *)

\* null / undefined, for each type of value the model holds: a string, a
\* row or object, a tuple (an id, a reference), a number column.
NULL == "null"
NoRow == [null |-> TRUE]
NoOrg == <<>>
NoRef == <<>>
NoNumber == 0
NaN == "NaN"

\* An organization id is a UUID: its first 8 characters and the rest.
Orgs == { <<"a1b2c3d4", "-0001">>, <<"e5f6a7b8", "-0002">> }
OrgA == <<"a1b2c3d4", "-0001">>
OrgB == <<"e5f6a7b8", "-0002">>

NotaIds == {"n1", "n2"}
RequestedIds == NotaIds \cup {"n9"}
CallIds == {1, 2}
Tipos == {"nfe", "nfse"}
Statuses == {"rascunho", "processando", "autorizada", "rejeitada", "cancelada", "erro"}

\* The random suffixes generateFocusRef may draw: two attempts can get
\* different suffixes and can get the same one.
Randoms == {"k3f9x2", "p0q8zz"}

\* JavaScript truthiness of a string value (or null).
Truthy(v) == v \notin {NULL, ""}

\* String.prototype.substring(0, 8) on an organization id.
Substring8(orgId) == orgId[1]

DigitValue == ("0" :> 0) @@ ("1" :> 1) @@ ("2" :> 2) @@ ("3" :> 3) @@ ("4" :> 4)
              @@ ("5" :> 5) @@ ("6" :> 6) @@ ("7" :> 7) @@ ("8" :> 8) @@ ("9" :> 9)

\* The white space and line terminator characters of ECMAScript: parseInt
\* skips them at the start of a string, trim strips them at both ends.  TAB,
\* LF, CR, FF, VT (U+000B) and NBSP (U+00A0) are written as characters; the
\* characters beyond Latin-1 are written by their code points.
WhiteSpace ==
    { " ", "\t", "\n", "\r", "\f", "", " ",
      "U+FEFF", "U+1680", "U+2000", "U+2001", "U+2002", "U+2003", "U+2004",
      "U+2005", "U+2006", "U+2007", "U+2008", "U+2009", "U+200A", "U+2028",
      "U+2029", "U+202F", "U+205F", "U+3000" }

\* parseInt(s, 10) on a string given as a sequence of characters: leading
\* white space is skipped, a sign is taken, then the decimal digits up to the
\* first other character; without a digit there the result is NaN.
ParseInt(s) ==
    LET RECURSIVE SkipWhiteSpace(_)
        SkipWhiteSpace(i) ==
            IF i <= Len(s) /\ s[i] \in WhiteSpace THEN SkipWhiteSpace(i + 1) ELSE i
        RECURSIVE ParseDigits(_, _)
        ParseDigits(i, acc) ==
            IF i > Len(s) \/ s[i] \notin DOMAIN DigitValue THEN acc
            ELSE ParseDigits(i + 1, acc * 10 + DigitValue[s[i]])
        start == SkipWhiteSpace(1)
        signed == start <= Len(s) /\ s[start] \in {"+", "-"}
        first == IF signed THEN start + 1 ELSE start
    IN  IF first > Len(s) \/ s[first] \notin DOMAIN DigitValue THEN NaN
        ELSE IF signed /\ s[start] = "-" THEN 0 - ParseDigits(first, 0)
        ELSE ParseDigits(first, 0)

(* ------------------------------ the store ------------------------------ *)

\* A complete draft document of the given tenant and kind.
NotaRascunho(org, tipo) ==
    [ organization_id |-> org, tipo |-> tipo, status |-> "rascunho",
      destinatario_nome |-> "Maria", destinatario_cpf_cnpj |-> "12345678901",
      destinatario_logradouro |-> "Rua A", destinatario_municipio |-> "Campinas",
      destinatario_uf |-> "SP",
      focus_nfe_ref |-> NoRef, focus_nfe_status |-> NULL, numero |-> NoNumber,
      mensagem_sefaz |-> NULL ]

DestinatarioFields ==
    { "destinatario_nome", "destinatario_cpf_cnpj", "destinatario_logradouro",
      "destinatario_municipio", "destinatario_uf" }

\* The documents the store may hold at the start: a complete draft, a document
\* in any other status, or a draft with one recipient field missing.
NotaProfiles(org, tipo) ==
    { NotaRascunho(org, tipo) }
    \cup { [NotaRascunho(org, tipo) EXCEPT !.status = st] : st \in Statuses \ {"rascunho"} }
    \cup { [NotaRascunho(org, tipo) EXCEPT ![f] = NULL] : f \in DestinatarioFields }

\* A usable fiscal configuration row.
ConfigBase ==
    [ nfe_habilitado |-> TRUE, nfse_habilitado |-> TRUE,
      certificado_validade |-> NoNumber, uf |-> "SP",
      focus_nfe_ambiente |-> NULL,
      focus_nfe_token_producao |-> NULL, focus_nfe_token_homologacao |-> "tok_hom",
      focus_nfe_token |-> NULL,
      nfe_ultimo_numero |-> 0, nfse_ultimo_numero |-> 0 ]

\* The configuration rows a tenant may have at the start (NoRow: no row).
ConfigProfiles ==
    { ConfigBase, NoRow,
      [ConfigBase EXCEPT !.nfe_habilitado = FALSE],
      [ConfigBase EXCEPT !.nfse_habilitado = FALSE],
      [ConfigBase EXCEPT !.certificado_validade = Hoje - 1],
      [ConfigBase EXCEPT !.certificado_validade = Hoje + 1],
      [ConfigBase EXCEPT !.focus_nfe_token_homologacao = NULL],
      [ConfigBase EXCEPT !.uf = NULL] }

\* The ids of line items: a UUID as its first 8 characters and the rest.
ItemIds == << <<"it000001", "-01">>, <<"it000002", "-02">>, <<"it000003", "-03">> >>

\* n line items of a document, numbered 1..n, without a code, a CFOP or a
\* tax situation of their own.
ItemRows(id, n) ==
    { [id |-> ItemIds[k], nota_fiscal_id |-> id, numero_item |-> k,
       codigo |-> NULL, cfop |-> NULL, icms_cst |-> NULL] : k \in 1..n }

\* Locals of a tool call that has not started.  `antes` is what the store and
\* the gateway held when the call was made, for the call's postconditions.
CallIdle ==
    [ pc |-> "idle", orgId |-> NoOrg, tool |-> NULL, nota_id |-> NULL,
      nota |-> NoRow, itens |-> <<>>, cfg |-> NoRow, focusRef |-> NoRef,
      response |-> NoRow, status |-> NULL, err |-> NULL, eventoErr |-> NULL,
      result |-> NULL, notaAtualizada |-> NoRow, antes |-> NoRow, filtro |-> NoRow, lista |-> NoRow ]

\* process.env with none of the variables the server reads set.
EnvBase ==
    [ FOCUS_NFE_MASTER_TOKEN |-> NULL, MASTER_API_KEY |-> NULL,
      GV_API_KEY |-> NULL, GV_ORG_ID |-> NoOrg ]

\* Locals of resolveOrgId before it is called.
AuthIdle ==
    [ pc |-> "idle", apiKey |-> NULL, orgIdOverride |-> NoOrg, key |-> NULL,
      orgId |-> NoOrg, err |-> NULL ]

\* Locals of an HTTP request slot before a request arrives.  `antes` is the
\* set of session ids the map held when the handler looked the session up.
HttpIdle ==
    [ pc |-> "idle", method |-> NULL, body |-> NULL, authorization |-> <<>>,
      apiKey |-> NULL, orgIdHeader |-> NoOrg, sessionHeader |-> NULL, orgId |-> NoOrg,
      sessionId |-> NULL, dispatched |-> NULL, status |-> 0, antes |-> {} ]

ReqIds == {1, 2}

\* No session, no transport and no request.
HttpIdleState ==
    /\ sessions = <<>>
    /\ transports = <<>>
    /\ httpReqs = [r \in ReqIds |-> HttpIdle]

\* Locals of the handlers of the budget tools before one is called.
OrcIdle ==
    [ pc |-> "idle", tool |-> NULL, n |-> 0, orgId |-> NoOrg, input |-> NoRow,
      usage |-> NoRow,
      orcamento |-> NoRow, itensErr |-> NULL, result |-> NULL, antes |-> NoRow ]

\* No budgets and no call of create_orcamento.
OrcIdleState ==
    /\ orcamentos = {}
    /\ orcamento_itens = {}
    /\ usage = [o \in Orgs |-> NoRow]
    /\ orcCall = [k \in CallIds |-> OrcIdle]
    /\ orcStarted = 0

\* No API keys and no call of resolveOrgId.
AuthIdleState ==
    /\ api_keys = {}
    /\ authCall = AuthIdle

\* The state outside the fiscal tools while only those are exercised.
OutrosIdle ==
    /\ AuthIdleState
    /\ HttpIdleState
    /\ OrcIdleState

\* No tool call made yet, nothing sent and no event written.
InitFiscal ==
    /\ fiscal_eventos = <<>>
    /\ focusRequests = <<>>
    /\ calls = [c \in CallIds |-> CallIdle]
    /\ started = 0

InitCommon ==
    /\ InitFiscal
    /\ OutrosIdle

\* Non-overlapping tool calls.  Document n1 of tenant A or the configuration
\* of tenant A departs from a complete draft and a usable configuration; n1
\* has any number of items; n2 is a complete goods draft of tenant A.  Tenant
\* B has a usable configuration and no documents.
InitSeq ==
    /\ InitCommon
    /\ maxInFlight = 1
    /\ insertOutcomes = {"ok"}
    /\ env = EnvBase
    /\ \E t1 \in Tipos :
         \E r1 \in NotaProfiles(OrgA, t1), cA \in ConfigProfiles :
           /\ r1 = NotaRascunho(OrgA, t1) \/ cA = ConfigBase
           /\ notas_fiscais = [id \in NotaIds |->
                 IF id = "n1" THEN r1 ELSE NotaRascunho(OrgA, "nfe")]
           /\ fiscal_config = [o \in Orgs |-> IF o = OrgA THEN cA ELSE ConfigBase]
    /\ \E k \in 0..MaxItens :
         notas_fiscais_itens = ItemRows("n1", k) \cup ItemRows("n2", 1)

\* Overlapping tool calls over a store of complete drafts of one tenant.
Init ==
    /\ InitCommon
    /\ maxInFlight = 2
    /\ insertOutcomes = {"ok"}
    /\ env = EnvBase
    /\ \E t1 \in Tipos, t2 \in Tipos :
         notas_fiscais = [id \in NotaIds |->
             IF id = "n1" THEN NotaRascunho(OrgA, t1) ELSE NotaRascunho(OrgA, t2)]
    /\ notas_fiscais_itens = ItemRows("n1", 1) \cup ItemRows("n2", 1)
    /\ fiscal_config = [o \in Orgs |-> ConfigBase]

\* Non-overlapping tool calls over a store of complete drafts of one tenant,
\* with a store that may reject the insert of an event row: the awaited
\* insert then resolves with an error, which the handlers do not look at.
InitFalha ==
    /\ InitCommon
    /\ maxInFlight = 1
    /\ insertOutcomes = {"ok", "error"}
    /\ env = EnvBase
    /\ \E t1 \in Tipos, t2 \in Tipos :
         notas_fiscais = [id \in NotaIds |->
             IF id = "n1" THEN NotaRascunho(OrgA, t1) ELSE NotaRascunho(OrgA, t2)]
    /\ notas_fiscais_itens = ItemRows("n1", 1) \cup ItemRows("n2", 1)
    /\ fiscal_config = [o \in Orgs |-> ConfigBase]

\* Overlapping tool calls over one complete goods draft of tenant A: both
\* calls that pass the checks are on the same document.  n2 is a cancelled
\* service document.
InitDup ==
    /\ InitCommon
    /\ maxInFlight = 2
    /\ insertOutcomes = {"ok"}
    /\ env = EnvBase
    /\ notas_fiscais = [id \in NotaIds |->
          IF id = "n1" THEN NotaRascunho(OrgA, "nfe")
          ELSE [NotaRascunho(OrgA, "nfse") EXCEPT !.status = "cancelada"]]
    /\ notas_fiscais_itens = ItemRows("n1", 1) \cup ItemRows("n2", 1)
    /\ fiscal_config = [o \in Orgs |-> ConfigBase]

\* What a credential column, or FOCUS_NFE_MASTER_TOKEN, may hold: nothing,
\* the empty string, or the token named.
TokenValues(token) == {NULL, "", token}

\* What the column focus_nfe_ambiente may hold.
Ambientes == {NULL, "", "homologacao", "producao"}

\* Non-overlapping tool calls for a tenant whose configuration holds any
\* combination of environment and credentials, in a process with any master
\* token; n1 is a complete goods draft of the tenant, n2 a cancelled service
\* document.
InitToken ==
    /\ InitCommon
    /\ maxInFlight = 1
    /\ insertOutcomes = {"ok"}
    /\ \E master \in TokenValues("tok_master") : env = [EnvBase EXCEPT !.FOCUS_NFE_MASTER_TOKEN = master]
    /\ notas_fiscais = [id \in NotaIds |->
          IF id = "n1" THEN NotaRascunho(OrgA, "nfe")
          ELSE [NotaRascunho(OrgA, "nfse") EXCEPT !.status = "cancelada"]]
    /\ notas_fiscais_itens = ItemRows("n1", 1) \cup ItemRows("n2", 1)
    /\ \E ambiente \in Ambientes, producao \in TokenValues("tok_prod"),
          homologacao \in TokenValues("tok_hom"), legado \in TokenValues("tok_leg") :
         fiscal_config = [o \in Orgs |->
           IF o = OrgA
           THEN [ConfigBase EXCEPT !.focus_nfe_ambiente = ambiente,
                                   !.focus_nfe_token_producao = producao,
                                   !.focus_nfe_token_homologacao = homologacao,
                                   !.focus_nfe_token = legado]
           ELSE ConfigBase]

\* Region codes as the store may hold them.
UFs == {"SP", "sp", "Sp", "RJ", "rj"}

\* What the column cfop of a line item may hold: nothing, the empty string,
\* or a code of its own.
CfopValues == {NULL, "", "5949"}

\* What the column icms_cst of a line item may hold: nothing, a situation
\* code without tax substitution, one with tax substitution.
IcmsCstValues == {NULL, "102", "500"}

\* The sequence numbers line items may be stored with.
NumerosDeItem == {1, 2, 4}

\* Non-overlapping tool calls on one complete goods draft n1 of tenant A; n2
\* is a cancelled service document.  Either the tenant and the recipient
\* have any region codes and n1 has two items, the first with any CFOP and
\* tax situation; or n1 has three items stored with any sequence numbers
\* (gaps, duplicates, a start other than 1).
InitItens ==
    /\ InitCommon
    /\ maxInFlight = 1
    /\ insertOutcomes = {"ok"}
    /\ env = EnvBase
    /\ \/ \E ufEmitente \in UFs, ufDestinatario \in UFs,
              cfop \in CfopValues, cst \in IcmsCstValues :
            /\ notas_fiscais = [id \in NotaIds |->
                  IF id = "n1"
                  THEN [NotaRascunho(OrgA, "nfe") EXCEPT !.destinatario_uf = ufDestinatario]
                  ELSE [NotaRascunho(OrgA, "nfse") EXCEPT !.status = "cancelada"]]
            /\ fiscal_config = [o \in Orgs |->
                  IF o = OrgA THEN [ConfigBase EXCEPT !.uf = ufEmitente] ELSE ConfigBase]
            /\ notas_fiscais_itens =
                  { [r EXCEPT !.cfop = IF r.numero_item = 1 THEN cfop ELSE @,
                              !.icms_cst = IF r.numero_item = 1 THEN cst ELSE "500"]
                    : r \in ItemRows("n1", 2) }
       \/ \E numeros \in [1..Len(ItemIds) -> NumerosDeItem] :
            /\ notas_fiscais = [id \in NotaIds |->
                  IF id = "n1" THEN NotaRascunho(OrgA, "nfe")
                  ELSE [NotaRascunho(OrgA, "nfse") EXCEPT !.status = "cancelada"]]
            /\ fiscal_config = [o \in Orgs |-> ConfigBase]
            /\ notas_fiscais_itens =
                  { [id |-> ItemIds[k], nota_fiscal_id |-> "n1",
                     numero_item |-> numeros[k], codigo |-> NULL, cfop |-> NULL,
                     icms_cst |-> NULL] : k \in 1..Len(ItemIds) }

(* ------------------------ helpers of the handlers ---------------------- *)

\* SelectNota without the filter on the tenant.
SelectNotaSemOrg(nota_id, orgId, tipo) ==
    IF /\ nota_id \in DOMAIN notas_fiscais
       /\ notas_fiscais[nota_id].tipo = tipo
    THEN notas_fiscais[nota_id] ELSE NoRow

\* .from('notas_fiscais').select('*').eq('id').eq('organization_id').eq('tipo').single()
SelectNota(nota_id, orgId, tipo) ==
    IF /\ nota_id \in DOMAIN notas_fiscais
       /\ notas_fiscais[nota_id].organization_id = orgId
       /\ notas_fiscais[nota_id].tipo = tipo
    THEN notas_fiscais[nota_id] ELSE NoRow

\* .from('notas_fiscais_itens').select('*').eq('nota_fiscal_id', nota_id)
SelectItens(nota_id) == { i \in notas_fiscais_itens : i.nota_fiscal_id = nota_id }

\* .order('numero_item', { ascending: true }): the orders the store may
\* return the rows in; rows with the same numero_item come in any order.
OrderByNumeroItem(rows) ==
    { s \in [1..Cardinality(rows) -> rows] :
        /\ \A i, j \in 1..Cardinality(rows) : i # j => s[i] # s[j]
        /\ \A i, j \in 1..Cardinality(rows) :
             i < j => s[i].numero_item <= s[j].numero_item }

\* String.prototype.toUpperCase on the region codes.
ToUpperCase(uf) ==
    CASE uf \in {"SP", "sp", "Sp"} -> "SP"
      [] uf \in {"RJ", "rj"} -> "RJ"

isMesmoEstado(ufEmitente, ufDestinatario) ==
    ToUpperCase(ufEmitente) = ToUpperCase(ufDestinatario)

getCfopVenda(dentroEstado, st) ==
    IF dentroEstado THEN (IF st THEN "5405" ELSE "5102")
    ELSE (IF st THEN "6405" ELSE "6102")

\* FocusItens that keeps the stored numero_item of every row.
FocusItensSemRenumerar(itens, dentroEstado) ==
    [ index \in 1..Len(itens) |->
        [ numero_item |-> itens[index].numero_item,
          codigo_produto |-> IF Truthy(itens[index].codigo) THEN itens[index].codigo
                             ELSE Substring8(itens[index].id),
          cfop |-> IF Truthy(itens[index].cfop) THEN itens[index].cfop
                   ELSE getCfopVenda(dentroEstado, FALSE) ] ]

\* focusItens of emit_nfe: itens.map((item, index) => ...), with index from 0.
FocusItens(itens, dentroEstado) ==
    [ index \in 1..Len(itens) |->
        [ numero_item |-> index,
          codigo_produto |-> IF Truthy(itens[index].codigo) THEN itens[index].codigo
                             ELSE Substring8(itens[index].id),
          cfop |-> IF Truthy(itens[index].cfop) THEN itens[index].cfop
                   ELSE getCfopVenda(dentroEstado, FALSE) ] ]

\* .from('fiscal_config').select('*').eq('organization_id', orgId).single()
SelectConfig(orgId) == IF orgId \in DOMAIN fiscal_config THEN fiscal_config[orgId] ELSE NoRow

generateFocusRef(orgId, tipo, timestamp, random) ==
    <<tipo, Substring8(orgId), timestamp, random>>

\* resolveFocusToken that tries the production slot and then the sandbox
\* slot, whatever the configured environment.
resolveFocusTokenSemAmbiente(cfg) ==
    IF Truthy(cfg.focus_nfe_token_producao) THEN cfg.focus_nfe_token_producao
    ELSE IF Truthy(cfg.focus_nfe_token_homologacao) THEN cfg.focus_nfe_token_homologacao
    ELSE IF Truthy(cfg.focus_nfe_token) THEN cfg.focus_nfe_token
    ELSE IF Truthy(env.FOCUS_NFE_MASTER_TOKEN) THEN env.FOCUS_NFE_MASTER_TOKEN
    ELSE NULL

\* The token of the configured environment, else the legacy token, else the
\* master token of the process; NULL stands for the thrown Error.
resolveFocusToken(cfg) ==
    LET ambiente == IF Truthy(cfg.focus_nfe_ambiente) THEN cfg.focus_nfe_ambiente
                    ELSE "homologacao"
        slot == IF ambiente = "producao" THEN cfg.focus_nfe_token_producao
                ELSE cfg.focus_nfe_token_homologacao
    IN  IF Truthy(slot) THEN slot
        ELSE IF Truthy(cfg.focus_nfe_token) THEN cfg.focus_nfe_token
        ELSE IF Truthy(env.FOCUS_NFE_MASTER_TOKEN) THEN env.FOCUS_NFE_MASTER_TOKEN
        ELSE NULL

\* The stored status for a gateway status string, goods documents.
MapStatusNfe(focusStatus) ==
    IF focusStatus = "autorizado" THEN "autorizada"
    ELSE IF focusStatus = "erro_autorizacao" \/ focusStatus = "denegado" THEN "rejeitada"
    ELSE "processando"

\* MapStatusNfse with the goods rule for 'denegado'.
MapStatusNfseComoNfe(focusStatus) ==
    IF focusStatus = "autorizado" THEN "autorizada"
    ELSE IF focusStatus = "erro_autorizacao" \/ focusStatus = "denegado" THEN "rejeitada"
    ELSE "processando"

\* The stored status for a gateway status string, service documents.
MapStatusNfse(focusStatus) ==
    IF focusStatus = "autorizado" THEN "autorizada"
    ELSE IF focusStatus = "erro_autorizacao" THEN "rejeitada"
    ELSE "processando"

MapStatus(tipo, focusStatus) ==
    IF tipo = "nfe" THEN MapStatusNfe(focusStatus) ELSE MapStatusNfse(focusStatus)

\* NotaCheck that lets a document in 'erro' be emitted again.
NotaCheckAceitaErro(tipo, nota) ==
    IF nota = NoRow THEN (IF tipo = "nfe" THEN "NFe nao encontrada" ELSE "NFSe nao encontrada")
    ELSE IF nota.status \notin {"rascunho", "erro"}
         THEN "Apenas notas em rascunho podem ser emitidas"
    ELSE "ok"

\* NotaCheck refusing only a document that is being processed.
NotaCheckSoProcessando(tipo, nota) ==
    IF nota = NoRow THEN (IF tipo = "nfe" THEN "NFe nao encontrada" ELSE "NFSe nao encontrada")
    ELSE IF nota.status = "processando" THEN "Apenas notas em rascunho podem ser emitidas"
    ELSE "ok"

\* The text emit_nfe returns for the first failed check on the loaded document.
NotaCheck(tipo, nota) ==
    IF nota = NoRow THEN (IF tipo = "nfe" THEN "NFe nao encontrada" ELSE "NFSe nao encontrada")
    ELSE IF nota.status # "rascunho" THEN "Apenas notas em rascunho podem ser emitidas"
    ELSE "ok"

\* ConfigCheckNfe without the check of the certificate date.
ConfigCheckNfeSemCertificado(cfg, n) ==
    IF cfg = NoRow THEN "Configuracao fiscal nao encontrada. Configure pelo app web."
    ELSE IF ~cfg.nfe_habilitado THEN "NFe nao esta habilitada na configuracao fiscal"
    ELSE IF ~Truthy(n.destinatario_nome) \/ ~Truthy(n.destinatario_cpf_cnpj)
         THEN "Dados do destinatario incompletos (nome e CPF/CNPJ obrigatorios)"
    ELSE IF \/ ~Truthy(n.destinatario_logradouro) \/ ~Truthy(n.destinatario_municipio)
            \/ ~Truthy(n.destinatario_uf)
         THEN "Endereco do destinatario incompleto"
    ELSE IF cfg.uf = NULL THEN "TypeError"
    ELSE "ok"

\* The text emit_nfe returns for the first failed check after the
\* configuration was read ("TypeError": isMesmoEstado throws on a null uf).
ConfigCheckNfe(cfg, n) ==
    IF cfg = NoRow THEN "Configuracao fiscal nao encontrada. Configure pelo app web."
    ELSE IF ~cfg.nfe_habilitado THEN "NFe nao esta habilitada na configuracao fiscal"
    ELSE IF cfg.certificado_validade # NoNumber /\ cfg.certificado_validade < Hoje
         THEN "Certificado digital expirado"
    ELSE IF ~Truthy(n.destinatario_nome) \/ ~Truthy(n.destinatario_cpf_cnpj)
         THEN "Dados do destinatario incompletos (nome e CPF/CNPJ obrigatorios)"
    ELSE IF \/ ~Truthy(n.destinatario_logradouro) \/ ~Truthy(n.destinatario_municipio)
            \/ ~Truthy(n.destinatario_uf)
         THEN "Endereco do destinatario incompleto"
    ELSE IF cfg.uf = NULL THEN "TypeError"
    ELSE "ok"

\* ItensCheck that accepts an empty item list.
ItensCheckIgnorado(itens) == "ok"

\* The text emit_nfe returns when the document has no items.
ItensCheck(itens) == IF Len(itens) = 0 THEN "Nota deve ter pelo menos um item" ELSE "ok"

\* The same for emit_nfse.
ConfigCheckNfse(cfg, n) ==
    IF cfg = NoRow THEN "Configuracao fiscal nao encontrada. Configure pelo app web."
    ELSE IF ~cfg.nfse_habilitado THEN "NFSe nao esta habilitada na configuracao fiscal"
    ELSE IF ~Truthy(n.destinatario_nome) \/ ~Truthy(n.destinatario_cpf_cnpj)
         THEN "Dados do tomador incompletos"
    ELSE "ok"

ConfigCheck(tipo, cfg, n) ==
    IF tipo = "nfe" THEN ConfigCheckNfe(cfg, n) ELSE ConfigCheckNfse(cfg, n)

\* Document numbers the gateway may report, as strings (<<>>: none).
Numeros == { <<>>, <<"1">>, <<"2">> }

\* Bodies of a successful gateway response.
FocusResponses ==
    { [status |-> "autorizado", numero |-> nr] : nr \in Numeros }
    \cup { [status |-> st, numero |-> <<>>] :
             st \in {"erro_autorizacao", "denegado", "processando_autorizacao"} }
    \cup { [status |-> "erro_autorizacao", numero |-> <<"1">>] }

\* Messages of the Error focusFetch throws: a rejected fetch, a non-2xx
\* status with a message in its body, and one without.
FocusErrors == { "fetch failed", "Nota invalida", "HTTP 500" }

(* ------------------------------ tool calls ----------------------------- *)

\* The store and the gateway log as a call finds them.
Snapshot ==
    [ notas_fiscais |-> notas_fiscais, notas_fiscais_itens |-> notas_fiscais_itens,
      fiscal_config |-> fiscal_config, fiscal_eventos |-> fiscal_eventos,
      focusRequests |-> focusRequests ]

Active(c) == calls[c].pc \notin {"idle", "done"}

\* The handler returns `text`.
Return(c, text) == [calls[c] EXCEPT !.pc = "done", !.result = text]

\* emit_nfe / emit_nfse is invoked on a server created for orgId: the orgId
\* check and the read of the document.
EmitBuscarNota(c, orgId, tool, nota_id) ==
    /\ ~Active(c)
    /\ \A d \in CallIds : d < c => Active(d)
    /\ Cardinality({d \in CallIds : Active(d)}) < maxInFlight
    /\ started < MaxCalls
    /\ started' = started + 1
    /\ calls' = [calls EXCEPT ![c] =
         IF orgId = NoOrg
         THEN [CallIdle EXCEPT !.pc = "done", !.orgId = orgId, !.tool = tool,
                               !.nota_id = nota_id, !.antes = Snapshot,
                               !.result = "Erro: orgId obrigatorio"]
         ELSE [CallIdle EXCEPT !.pc = "nota_lida", !.orgId = orgId, !.tool = tool,
                               !.nota_id = nota_id, !.antes = Snapshot,
                               !.nota = SelectNota(nota_id, orgId, tool)]]
    /\ UNCHANGED <<notas_fiscais, notas_fiscais_itens, fiscal_config, fiscal_eventos,
                   focusRequests, maxInFlight, env, insertOutcomes, outros>>

\* emit_nfe: the checks on the loaded document, then the read of its items.
EmitNfeBuscarItens(c) ==
    /\ calls[c].pc = "nota_lida"
    /\ calls[c].tool = "nfe"
    /\ LET chk == NotaCheck("nfe", calls[c].nota) IN
       IF chk # "ok"
       THEN calls' = [calls EXCEPT ![c] = Return(c, chk)]
       ELSE \E itens \in OrderByNumeroItem(SelectItens(calls[c].nota_id)) :
              calls' = [calls EXCEPT ![c] =
                [@ EXCEPT !.pc = "itens_lidos", !.itens = itens]]
    /\ UNCHANGED <<notas_fiscais, notas_fiscais_itens, fiscal_config, fiscal_eventos,
                   focusRequests, started, maxInFlight, env, insertOutcomes, outros>>

\* emit_nfe: the check on the items, then the read of the configuration.
EmitNfeBuscarConfig(c) ==
    /\ calls[c].pc = "itens_lidos"
    /\ calls' = [calls EXCEPT ![c] =
         IF ItensCheck(calls[c].itens) # "ok" THEN Return(c, ItensCheck(calls[c].itens))
         ELSE [@ EXCEPT !.pc = "config_lida", !.cfg = SelectConfig(calls[c].orgId)]]
    /\ UNCHANGED <<notas_fiscais, notas_fiscais_itens, fiscal_config, fiscal_eventos,
                   focusRequests, started, maxInFlight, env, insertOutcomes, outros>>

\* emit_nfse: the checks on the loaded document, then the read of the configuration.
EmitNfseBuscarConfig(c) ==
    /\ calls[c].pc = "nota_lida"
    /\ calls[c].tool = "nfse"
    /\ LET chk == NotaCheck("nfse", calls[c].nota) IN
       calls' = [calls EXCEPT ![c] =
         IF chk # "ok" THEN Return(c, chk)
         ELSE [@ EXCEPT !.pc = "config_lida", !.cfg = SelectConfig(calls[c].orgId)]]
    /\ UNCHANGED <<notas_fiscais, notas_fiscais_itens, fiscal_config, fiscal_eventos,
                   focusRequests, started, maxInFlight, env, insertOutcomes, outros>>

\* .update({ status: 'processando', focus_nfe_ref: focusRef }) applied to a row.
UpdateProcessando(row, focusRef) ==
    [row EXCEPT !.status = "processando", !.focus_nfe_ref = focusRef]

\* EmitGravarProcessando with a conditional update: the write is made only
\* where the stored status is still 'rascunho', and the call is refused when
\* no row was changed.
EmitGravarProcessandoCondicional(c) ==
    /\ calls[c].pc = "config_lida"
    /\ LET chk == ConfigCheck(calls[c].tool, calls[c].cfg, calls[c].nota) IN
       IF chk # "ok"
       THEN /\ calls' = [calls EXCEPT ![c] = Return(c, chk)]
            /\ UNCHANGED notas_fiscais
       ELSE IF notas_fiscais[calls[c].nota_id].status # "rascunho"
       THEN /\ calls' = [calls EXCEPT ![c] =
                   Return(c, "Apenas notas em rascunho podem ser emitidas")]
            /\ UNCHANGED notas_fiscais
       ELSE \E random \in Randoms :
              LET focusRef == generateFocusRef(calls[c].orgId, calls[c].tool, Hoje, random)
              IN /\ notas_fiscais' = [notas_fiscais EXCEPT ![calls[c].nota_id] =
                       UpdateProcessando(@, focusRef)]
                 /\ calls' = [calls EXCEPT ![c] =
                       [@ EXCEPT !.pc = "enviar", !.focusRef = focusRef]]
    /\ UNCHANGED <<notas_fiscais_itens, fiscal_config, fiscal_eventos,
                   focusRequests, started, maxInFlight, env, insertOutcomes, outros>>

\* The checks on configuration and recipient, the reference id, and the
\* optimistic update of the document to 'processando'.
EmitGravarProcessando(c) ==
    /\ calls[c].pc = "config_lida"
    /\ LET chk == ConfigCheck(calls[c].tool, calls[c].cfg, calls[c].nota) IN
       IF chk # "ok"
       THEN /\ calls' = [calls EXCEPT ![c] = Return(c, chk)]
            /\ UNCHANGED notas_fiscais
       ELSE \E random \in Randoms :
              LET focusRef == generateFocusRef(calls[c].orgId, calls[c].tool, Hoje, random)
              IN /\ notas_fiscais' = [notas_fiscais EXCEPT ![calls[c].nota_id] =
                       UpdateProcessando(@, focusRef)]
                 /\ calls' = [calls EXCEPT ![c] =
                       [@ EXCEPT !.pc = "enviar", !.focusRef = focusRef]]
    /\ UNCHANGED <<notas_fiscais_itens, fiscal_config, fiscal_eventos,
                   focusRequests, started, maxInFlight, env, insertOutcomes, outros>>

\* resolveFocusToken, then focusFetch sends the POST to the gateway.
EmitEnviarFocus(c) ==
    /\ calls[c].pc = "enviar"
    /\ IF resolveFocusToken(calls[c].cfg) = NULL
       THEN /\ calls' = [calls EXCEPT ![c] =
                 [@ EXCEPT !.pc = "catch_nota", !.err = "Token Focus NFe nao configurado"]]
            /\ UNCHANGED focusRequests
       ELSE /\ focusRequests' = Append(focusRequests,
                 [ref |-> calls[c].focusRef, tipo |-> calls[c].tool,
                  nota_id |-> calls[c].nota_id,
                  token |-> resolveFocusToken(calls[c].cfg),
                  items |-> IF calls[c].tool = "nfe"
                            THEN FocusItens(calls[c].itens,
                                     isMesmoEstado(calls[c].cfg.uf,
                                                   calls[c].nota.destinatario_uf))
                            ELSE <<>>])
            /\ calls' = [calls EXCEPT ![c] =
                 [@ EXCEPT !.pc = "aguardando"]]
    /\ UNCHANGED <<notas_fiscais, notas_fiscais_itens, fiscal_config, fiscal_eventos,
                   started, maxInFlight, env, insertOutcomes, outros>>

\* focusFetch returns the body of a 2xx response; the handler maps its status.
FocusFetchOk(c, response) ==
    /\ calls[c].pc = "aguardando"
    /\ LET status == MapStatus(calls[c].tool, response.status) IN
       calls' = [calls EXCEPT ![c] =
         [@ EXCEPT !.response = response, !.status = status,
                   !.pc = IF status = "autorizada" /\ response.numero # <<>>
                          THEN "atualizar_config" ELSE "atualizar_nota"]]
    /\ UNCHANGED <<notas_fiscais, notas_fiscais_itens, fiscal_config, fiscal_eventos,
                   focusRequests, started, maxInFlight, env, insertOutcomes, outros>>

\* focusFetch throws: the fetch was rejected or the response was not 2xx.
FocusFetchThrow(c, mensagem) ==
    /\ calls[c].pc = "aguardando"
    /\ calls' = [calls EXCEPT ![c] = [@ EXCEPT !.pc = "catch_nota", !.err = mensagem]]
    /\ UNCHANGED <<notas_fiscais, notas_fiscais_itens, fiscal_config, fiscal_eventos,
                   focusRequests, started, maxInFlight, env, insertOutcomes, outros>>

\* UltimoNumeroField that names the counter of goods documents for both kinds.
UltimoNumeroFieldSempreNfe(tipo) == "nfe_ultimo_numero"

\* The column of fiscal_config that holds the last used number of a kind.
UltimoNumeroField(tipo) == IF tipo = "nfe" THEN "nfe_ultimo_numero" ELSE "nfse_ultimo_numero"

\* UpdateUltimoNumero without the filter on the tenant: every row is updated.
UpdateUltimoNumeroSemFiltro(config, orgId, tipo, numero) ==
    [o \in DOMAIN config |->
        IF config[o] # NoRow THEN [config[o] EXCEPT ![UltimoNumeroField(tipo)] = numero]
        ELSE config[o]]

\* .from('fiscal_config').update({ <kind>_ultimo_numero: numero }).eq('organization_id', orgId)
UpdateUltimoNumero(config, orgId, tipo, numero) ==
    IF orgId \in DOMAIN config /\ config[orgId] # NoRow
    THEN [config EXCEPT ![orgId] = [@ EXCEPT ![UltimoNumeroField(tipo)] = numero]]
    ELSE config

\* Authorized with a document number: the counter of the tenant is written.
EmitAtualizarConfig(c) ==
    /\ calls[c].pc = "atualizar_config"
    /\ fiscal_config' = UpdateUltimoNumero(fiscal_config, calls[c].orgId, calls[c].tool,
                                           ParseInt(calls[c].response.numero))
    /\ calls' = [calls EXCEPT ![c] = [@ EXCEPT !.pc = "atualizar_nota"]]
    /\ UNCHANGED <<notas_fiscais, notas_fiscais_itens, fiscal_eventos,
                   focusRequests, started, maxInFlight, env, insertOutcomes, outros>>

\* updateData of the handler applied to a document row.
UpdateData(row, status, response) ==
    [row EXCEPT !.status = status,
                !.focus_nfe_status = response.status,
                !.mensagem_sefaz = NULL,
                !.numero = IF status = "autorizada" /\ response.numero # <<>>
                           THEN ParseInt(response.numero) ELSE @]

\* The document is updated with the result of the gateway.
EmitAtualizarNota(c) ==
    /\ calls[c].pc = "atualizar_nota"
    /\ notas_fiscais' = [notas_fiscais EXCEPT ![calls[c].nota_id] =
                            UpdateData(@, calls[c].status, calls[c].response)]
    /\ calls' = [calls EXCEPT ![c] = [@ EXCEPT !.pc = "registrar_evento"]]
    /\ UNCHANGED <<notas_fiscais_itens, fiscal_config, fiscal_eventos,
                   focusRequests, started, maxInFlight, env, insertOutcomes, outros>>

\* EventoEmissao that logs a gateway rejection as an event of kind erro.
EventoEmissaoComoErroSeRejeitada(orgId, nota_id, response) ==
    [ organization_id |-> orgId, nota_fiscal_id |-> nota_id,
      tipo |-> IF response.status = "erro_autorizacao" THEN "erro" ELSE "emissao",
      status |-> response.status, dados |-> response ]

\* The event row of a submission the gateway answered.
EventoEmissao(orgId, nota_id, response) ==
    [ organization_id |-> orgId, nota_fiscal_id |-> nota_id, tipo |-> "emissao",
      status |-> response.status, dados |-> response ]

\* EventoErro inserted with the kind of the success branch.
EventoErroComoEmissao(orgId, nota_id, mensagem) ==
    [ organization_id |-> orgId, nota_fiscal_id |-> nota_id, tipo |-> "emissao",
      status |-> "erro", dados |-> [error |-> mensagem] ]

\* The event row of a failed submission.
EventoErro(orgId, nota_id, mensagem) ==
    [ organization_id |-> orgId, nota_fiscal_id |-> nota_id, tipo |-> "erro",
      status |-> "erro", dados |-> [error |-> mensagem] ]

\* An insert that replaces the rows of the table.
InsertEventoSubstitui(eventos, row) == <<row>>

\* .from('fiscal_eventos').insert(row)
InsertEvento(eventos, row) == Append(eventos, row)

\* EmitRegistrarEvento with an insert that throws when the store rejects it.
EmitRegistrarEventoLanca(c) ==
    /\ calls[c].pc = "registrar_evento"
    /\ \E outcome \in insertOutcomes :
         IF outcome = "ok"
         THEN /\ fiscal_eventos' = InsertEvento(fiscal_eventos,
                     EventoEmissao(calls[c].orgId, calls[c].nota_id, calls[c].response))
              /\ calls' = [calls EXCEPT ![c] = [@ EXCEPT !.pc = "reler"]]
         ELSE /\ fiscal_eventos' = fiscal_eventos
              /\ calls' = [calls EXCEPT ![c] =
                     [@ EXCEPT !.pc = "catch_nota", !.err = "insert failed",
                               !.eventoErr = "insert failed"]]
    /\ UNCHANGED <<notas_fiscais, notas_fiscais_itens, fiscal_config,
                   focusRequests, started, maxInFlight, env, insertOutcomes, outros>>

\* The insert of the event of the success branch has resolved, with the row
\* in the table or with an error (eventoErr); the handler does not look at
\* the result and goes on to read the document again.
EmitRegistrarEvento(c) ==
    /\ calls[c].pc = "registrar_evento"
    /\ \E outcome \in insertOutcomes :
         /\ fiscal_eventos' =
              IF outcome = "ok"
              THEN InsertEvento(fiscal_eventos,
                       EventoEmissao(calls[c].orgId, calls[c].nota_id, calls[c].response))
              ELSE fiscal_eventos
         /\ calls' = [calls EXCEPT ![c] =
              [@ EXCEPT !.pc = "reler",
                        !.eventoErr = IF outcome = "ok" THEN NULL ELSE "insert failed"]]
    /\ UNCHANGED <<notas_fiscais, notas_fiscais_itens, fiscal_config,
                   focusRequests, started, maxInFlight, env, insertOutcomes, outros>>

\* The document is read again and returned with success: true.
EmitRetornar(c) ==
    /\ calls[c].pc = "reler"
    /\ calls' = [calls EXCEPT ![c] =
         [@ EXCEPT !.pc = "done", !.result = "success",
                   !.notaAtualizada = notas_fiscais[calls[c].nota_id]]]
    /\ UNCHANGED <<notas_fiscais, notas_fiscais_itens, fiscal_config, fiscal_eventos,
                   focusRequests, started, maxInFlight, env, insertOutcomes, outros>>

\* UpdateErro that puts the document back to 'rascunho'.
UpdateErroVoltaRascunho(row, mensagem) ==
    [row EXCEPT !.status = "rascunho", !.mensagem_sefaz = mensagem]

\* .update({ status: 'erro', mensagem_sefaz: err.message }) applied to a row.
UpdateErro(row, mensagem) ==
    [row EXCEPT !.status = "erro", !.mensagem_sefaz = mensagem]

\* catch: the document is moved to 'erro' with the message of the Error.
EmitCatchAtualizarNota(c) ==
    /\ calls[c].pc = "catch_nota"
    /\ notas_fiscais' = [notas_fiscais EXCEPT ![calls[c].nota_id] =
                            UpdateErro(@, calls[c].err)]
    /\ calls' = [calls EXCEPT ![c] = [@ EXCEPT !.pc = "catch_evento"]]
    /\ UNCHANGED <<notas_fiscais_itens, fiscal_config, fiscal_eventos,
                   focusRequests, started, maxInFlight, env, insertOutcomes, outros>>

\* catch: the insert of the error event has resolved, with the row in the
\* table or with an error (eventoErr) the handler does not look at, and the
\* error text is returned.
EmitCatchRegistrarEvento(c) ==
    /\ calls[c].pc = "catch_evento"
    /\ \E outcome \in insertOutcomes :
         /\ fiscal_eventos' =
              IF outcome = "ok"
              THEN InsertEvento(fiscal_eventos,
                       EventoErro(calls[c].orgId, calls[c].nota_id, calls[c].err))
              ELSE fiscal_eventos
         /\ calls' = [calls EXCEPT ![c] =
              [@ EXCEPT !.pc = "done",
                        !.eventoErr = IF outcome = "ok" THEN NULL ELSE "insert failed",
                        !.result = IF calls[c].tool = "nfe" THEN "Erro ao emitir NFe"
                                   ELSE "Erro ao emitir NFSe"]]
    /\ UNCHANGED <<notas_fiscais, notas_fiscais_itens, fiscal_config,
                   focusRequests, started, maxInFlight, env, insertOutcomes, outros>>

\* The tenants a server session may have been created for (NoOrg: master key
\* without an organization).
SessionOrgs == Orgs \cup {NoOrg}

Next ==
    \/ \E c \in CallIds, orgId \in SessionOrgs, tool \in Tipos, nota_id \in RequestedIds :
         EmitBuscarNota(c, orgId, tool, nota_id)
    \/ \E c \in CallIds : EmitNfeBuscarItens(c)
    \/ \E c \in CallIds : EmitNfeBuscarConfig(c)
    \/ \E c \in CallIds : EmitNfseBuscarConfig(c)
    \/ \E c \in CallIds : EmitGravarProcessando(c)
    \/ \E c \in CallIds : EmitEnviarFocus(c)
    \/ \E c \in CallIds, response \in FocusResponses : FocusFetchOk(c, response)
    \/ \E c \in CallIds, mensagem \in FocusErrors : FocusFetchThrow(c, mensagem)
    \/ \E c \in CallIds : EmitAtualizarConfig(c)
    \/ \E c \in CallIds : EmitAtualizarNota(c)
    \/ \E c \in CallIds : EmitRegistrarEvento(c)
    \/ \E c \in CallIds : EmitRetornar(c)
    \/ \E c \in CallIds : EmitCatchAtualizarNota(c)
    \/ \E c \in CallIds : EmitCatchRegistrarEvento(c)

Spec == Init /\ [][Next]_vars

SpecSeq == InitSeq /\ [][Next]_vars

SpecDup == InitDup /\ [][Next]_vars

SpecFalha == InitFalha /\ [][Next]_vars

SpecToken == InitToken /\ [][Next]_vars

SpecItens == InitItens /\ [][Next]_vars

\* The steps of a handler that follow an awaited store call: they are taken
\* once the store has answered.  The answer of the gateway (FocusFetchOk,
\* FocusFetchThrow) is not among them: fetch is called without a timeout or
\* an abort signal, so nothing in the handler makes the await end.
HandlerStep(c) ==
    \/ EmitNfeBuscarItens(c)
    \/ EmitNfeBuscarConfig(c)
    \/ EmitNfseBuscarConfig(c)
    \/ EmitGravarProcessando(c)
    \/ EmitEnviarFocus(c)
    \/ EmitAtualizarConfig(c)
    \/ EmitAtualizarNota(c)
    \/ EmitRegistrarEvento(c)
    \/ EmitRetornar(c)
    \/ EmitCatchAtualizarNota(c)
    \/ EmitCatchRegistrarEvento(c)

Fairness == \A c \in CallIds : WF_vars(HandlerStep(c))

\* Non-overlapping tool calls whose handlers keep running.
SpecVivo == InitSeq /\ [][Next]_vars /\ Fairness

(* ------------------ list_notas_fiscais, get_nota_fiscal ---------------- *)

\* The ids of the documents by created_at, latest first.
CreatedOrder == <<"n2", "n1">>

\* The filters and the page size a caller of list_notas_fiscais may give
\* (NULL: the filter is not given; 20 is the default limit).
ListTipos == {NULL, "nfe"}

ListStatuses == {NULL, "rascunho"}

ListLimits == {1, 20}

\* The query of list_notas_fiscais: the documents of the tenant that pass
\* the filters given, latest first, cut to the first `limit`, and the count
\* of all that pass.
ListQuery(orgId, tipo, status, limit) ==
    LET Match(id) ==
            /\ notas_fiscais[id].organization_id = orgId
            /\ Truthy(tipo) => notas_fiscais[id].tipo = tipo
            /\ Truthy(status) => notas_fiscais[id].status = status
        all == SelectSeq(CreatedOrder, Match)
    IN [ notas |-> SubSeq(all, 1, IF limit < Len(all) THEN limit ELSE Len(all)),
         total |-> Len(all) ]

\* ListNotasFiscais without the orgId check: the query is made with the
\* orgId the server has.
ListNotasFiscaisSemOrgId(c, orgId, tipo, status, limit) ==
    /\ ~Active(c)
    /\ \A d \in CallIds : d < c => Active(d)
    /\ Cardinality({d \in CallIds : Active(d)}) < maxInFlight
    /\ started < MaxCalls
    /\ started' = started + 1
    /\ calls' = [calls EXCEPT ![c] =
         [CallIdle EXCEPT !.pc = "lista_lida", !.orgId = orgId, !.tool = "list",
                          !.antes = Snapshot,
                          !.filtro = [tipo |-> tipo, status |-> status, limit |-> limit],
                          !.lista = ListQuery(orgId, tipo, status, limit)]]
    /\ UNCHANGED <<notas_fiscais, notas_fiscais_itens, fiscal_config, fiscal_eventos,
                   focusRequests, maxInFlight, env, insertOutcomes, outros>>

\* list_notas_fiscais is invoked on a server created for orgId: the orgId
\* check and the query.
ListNotasFiscais(c, orgId, tipo, status, limit) ==
    /\ ~Active(c)
    /\ \A d \in CallIds : d < c => Active(d)
    /\ Cardinality({d \in CallIds : Active(d)}) < maxInFlight
    /\ started < MaxCalls
    /\ started' = started + 1
    /\ calls' = [calls EXCEPT ![c] =
         IF orgId = NoOrg
         THEN [CallIdle EXCEPT !.pc = "done", !.orgId = orgId, !.tool = "list",
                               !.antes = Snapshot,
                               !.filtro = [tipo |-> tipo, status |-> status, limit |-> limit],
                               !.result = "Erro: orgId obrigatorio"]
         ELSE [CallIdle EXCEPT !.pc = "lista_lida", !.orgId = orgId, !.tool = "list",
                               !.antes = Snapshot,
                               !.filtro = [tipo |-> tipo, status |-> status, limit |-> limit],
                               !.lista = ListQuery(orgId, tipo, status, limit)]]
    /\ UNCHANGED <<notas_fiscais, notas_fiscais_itens, fiscal_config, fiscal_eventos,
                   focusRequests, maxInFlight, env, insertOutcomes, outros>>

\* list_notas_fiscais returns the page and the total.
ListRetornar(c) ==
    /\ calls[c].pc = "lista_lida"
    /\ calls' = [calls EXCEPT ![c] = Return(c, "success")]
    /\ UNCHANGED <<notas_fiscais, notas_fiscais_itens, fiscal_config, fiscal_eventos,
                   focusRequests, started, maxInFlight, env, insertOutcomes, outros>>

\* .from('notas_fiscais').select('*').eq('id', id).eq('organization_id', orgId).single()
SelectNotaPorId(id, orgId) ==
    IF id \in DOMAIN notas_fiscais /\ notas_fiscais[id].organization_id = orgId
    THEN notas_fiscais[id] ELSE NoRow

\* get_nota_fiscal is invoked on a server created for orgId: the orgId check
\* and the two reads of Promise.all, of the document and of its items.
GetNotaFiscal(c, orgId, id) ==
    /\ ~Active(c)
    /\ \A d \in CallIds : d < c => Active(d)
    /\ Cardinality({d \in CallIds : Active(d)}) < maxInFlight
    /\ started < MaxCalls
    /\ started' = started + 1
    /\ IF orgId = NoOrg
       THEN calls' = [calls EXCEPT ![c] =
              [CallIdle EXCEPT !.pc = "done", !.orgId = orgId, !.tool = "get",
                               !.nota_id = id, !.antes = Snapshot,
                               !.result = "Erro: orgId obrigatorio"]]
       ELSE \E itens \in OrderByNumeroItem(SelectItens(id)) :
              calls' = [calls EXCEPT ![c] =
                [CallIdle EXCEPT !.pc = "get_lido", !.orgId = orgId, !.tool = "get",
                                 !.nota_id = id, !.antes = Snapshot,
                                 !.nota = SelectNotaPorId(id, orgId), !.itens = itens]]
    /\ UNCHANGED <<notas_fiscais, notas_fiscais_itens, fiscal_config, fiscal_eventos,
                   focusRequests, maxInFlight, env, insertOutcomes, outros>>

\* get_nota_fiscal returns the document with its items, or the not-found text.
GetRetornar(c) ==
    /\ calls[c].pc = "get_lido"
    /\ calls' = [calls EXCEPT ![c] =
         IF calls[c].nota = NoRow THEN Return(c, "Nota fiscal nao encontrada")
         ELSE Return(c, "success")]
    /\ UNCHANGED <<notas_fiscais, notas_fiscais_itens, fiscal_config, fiscal_eventos,
                   focusRequests, started, maxInFlight, env, insertOutcomes, outros>>

\* Non-overlapping calls of the five fiscal tools: n1 is a complete goods
\* draft of tenant A with one item, n2 an authorized service document of
\* tenant B.
InitTools ==
    /\ InitCommon
    /\ maxInFlight = 1
    /\ insertOutcomes = {"ok"}
    /\ env = EnvBase
    /\ notas_fiscais = [id \in NotaIds |->
          IF id = "n1" THEN NotaRascunho(OrgA, "nfe")
          ELSE [NotaRascunho(OrgB, "nfse") EXCEPT !.status = "autorizada"]]
    /\ notas_fiscais_itens = ItemRows("n1", 1) \cup ItemRows("n2", 1)
    /\ fiscal_config = [o \in Orgs |-> ConfigBase]

NextTools ==
    \/ Next
    \/ \E c \in CallIds, orgId \in SessionOrgs, tipo \in ListTipos,
          status \in ListStatuses, limit \in ListLimits :
         ListNotasFiscais(c, orgId, tipo, status, limit)
    \/ \E c \in CallIds : ListRetornar(c)
    \/ \E c \in CallIds, orgId \in SessionOrgs, id \in RequestedIds :
         GetNotaFiscal(c, orgId, id)
    \/ \E c \in CallIds : GetRetornar(c)

SpecTools == InitTools /\ [][NextTools]_vars

(* ------------------------------ resolveOrgId --------------------------- *)

\* The API keys a caller may present: the keys of two tenants, the master
\* key, and a key no row was ever made for.
ApiKeys == {"gv_key_a", "gv_key_b", "gv_master", "gv_unknown"}

\* createHash('sha256').update(key).digest('hex'), on those keys.
Sha256(key) ==
    CASE key = "gv_key_a" -> "5f9c4ab0"
      [] key = "gv_key_b" -> "c03d1e77"
      [] key = "gv_master" -> "8a21ffe4"
      [] key = "gv_unknown" -> "1b6e90d2"

\* The empty string where an organization id is expected (an empty X-Org-Id
\* or GV_ORG_ID).
EmptyOrg == <<"">>

\* JavaScript truthiness of an organization id (or undefined).
TruthyOrg(orgId) == orgId \notin {NoOrg, EmptyOrg}

KeyRow(key, org, active) ==
    [ key_hash |-> Sha256(key), organization_id |-> org, active |-> active ]

\* The contents the table api_keys may have: an active key per tenant, a
\* deactivated key, two active rows with one hash, a deactivated row of
\* another tenant beside the active one, no rows.
ApiKeyTables ==
    { { KeyRow("gv_key_a", OrgA, TRUE), KeyRow("gv_key_b", OrgB, TRUE) },
      { KeyRow("gv_key_a", OrgA, FALSE), KeyRow("gv_key_b", OrgB, TRUE) },
      { KeyRow("gv_key_a", OrgA, TRUE), KeyRow("gv_key_a", OrgB, TRUE) },
      { KeyRow("gv_key_a", OrgA, TRUE), KeyRow("gv_key_a", OrgB, FALSE) },
      {} }

\* .from('api_keys').select('organization_id').eq('key_hash', keyHash)
\* .eq('active', true).single(): the row when exactly one matches.
SelectApiKey(keyHash) ==
    LET rows == { r \in api_keys : r.key_hash = keyHash /\ r.active }
    IN IF Cardinality(rows) = 1 THEN CHOOSE r \in rows : TRUE ELSE NoRow

\* IsMasterKey that takes every key for the master key once one is set.
IsMasterKeyQualquer(key, masterKey) == Truthy(masterKey)

\* masterKey && key === masterKey
IsMasterKey(key, masterKey) == Truthy(masterKey) /\ key = masterKey

\* resolveOrgId up to its await: the key check, the master key branch, and
\* the query on api_keys being sent.
ResolveOrgIdInicio(apiKey, orgIdOverride) ==
    /\ authCall.pc \in {"idle", "done"}
    /\ LET key == IF Truthy(apiKey) THEN apiKey ELSE env.GV_API_KEY
           orgId == IF TruthyOrg(orgIdOverride) THEN orgIdOverride ELSE env.GV_ORG_ID
           call == [AuthIdle EXCEPT !.apiKey = apiKey, !.orgIdOverride = orgIdOverride,
                                    !.key = key]
       IN authCall' =
            IF ~Truthy(key)
            THEN [call EXCEPT !.pc = "done", !.err = "API key e obrigatoria"]
            ELSE IF IsMasterKey(key, env.MASTER_API_KEY)
            THEN [call EXCEPT !.pc = "done",
                              !.orgId = IF TruthyOrg(orgId) THEN orgId ELSE NoOrg]
            ELSE [call EXCEPT !.pc = "select"]
    /\ UNCHANGED <<fiscalVars, env, api_keys, httpVars, orcVars>>

\* The query on api_keys resolves: the organization of the row, or the Error.
ResolveOrgIdSelect ==
    /\ authCall.pc = "select"
    /\ LET data == SelectApiKey(Sha256(authCall.key))
       IN authCall' =
            IF data = NoRow
            THEN [authCall EXCEPT !.pc = "done", !.err = "API key invalida"]
            ELSE [authCall EXCEPT !.pc = "done", !.orgId = data.organization_id]
    /\ UNCHANGED <<fiscalVars, env, api_keys, httpVars, orcVars>>

\* What the apiKey argument may be (undefined, empty, a key) and what the
\* orgIdOverride argument may be.
ApiKeyValues == {NULL, ""} \cup ApiKeys

OrgOverrides == {NoOrg, EmptyOrg, OrgA, OrgB}

\* The store of the fiscal tools while they are not exercised.
FiscalIdle ==
    /\ InitFiscal
    /\ maxInFlight = 1
    /\ insertOutcomes = {"ok"}
    /\ notas_fiscais = [id \in NotaIds |-> NotaRascunho(OrgA, "nfe")]
    /\ notas_fiscais_itens = {}
    /\ fiscal_config = [o \in Orgs |-> ConfigBase]

\* A process with any of MASTER_API_KEY, GV_API_KEY and GV_ORG_ID set or
\* not, over any of the contents of api_keys.
InitAuth ==
    /\ FiscalIdle
    /\ \E master \in {NULL, "", "gv_master"}, gvKey \in {NULL, "gv_key_a", "gv_master"},
          gvOrg \in {NoOrg, EmptyOrg, OrgB} :
         env = [EnvBase EXCEPT !.MASTER_API_KEY = master, !.GV_API_KEY = gvKey,
                               !.GV_ORG_ID = gvOrg]
    /\ api_keys \in ApiKeyTables
    /\ authCall = AuthIdle
    /\ HttpIdleState
    /\ OrcIdleState

NextAuth ==
    \/ \E apiKey \in ApiKeyValues, orgIdOverride \in OrgOverrides :
         ResolveOrgIdInicio(apiKey, orgIdOverride)
    \/ ResolveOrgIdSelect

SpecAuth == InitAuth /\ [][NextAuth]_vars

(* ------------------------------ HTTP sessions -------------------------- *)

\* The ids randomUUID() gives to sessions, and the values the header
\* Mcp-Session-Id may carry (NULL: no header; "s9": an id never given).
SessionIds == {"s1", "s2"}

SessionHeaders == {NULL, "s9"} \cup SessionIds

\* The header Authorization (<<>>: no header): its text up to and with the
\* first blank, and the rest as a sequence of pieces, each a white space
\* character or a run of other characters.  Among them a header of blanks
\* only, a key between a blank and a no-break space and a key after two
\* blanks.
AuthorizationHeaders ==
    { <<>>, <<"Basic ", <<"gv_key_a">> >>, <<"Bearer ", <<" ">> >>,
      <<"Bearer ", <<" ", "gv_key_a", " ">> >>, <<"Bearer ", <<" ", "gv_master">> >>,
      <<"Bearer ", <<"gv_unknown">> >> }

\* String.prototype.trim on a string given as a sequence of pieces: the
\* white space at both ends is dropped and the pieces between are the
\* resulting string.
Trim(t) ==
    LET RECURSIVE First(_)
        First(i) == IF i <= Len(t) /\ t[i] \in WhiteSpace THEN First(i + 1) ELSE i
        RECURSIVE Last(_)
        Last(i) == IF i >= 1 /\ t[i] \in WhiteSpace THEN Last(i - 1) ELSE i
        RECURSIVE Join(_, _)
        Join(i, j) == IF i > j THEN "" ELSE t[i] \o Join(i + 1, j)
    IN  Join(First(1), Last(Len(t)))

\* extractBearerToken: null unless the header starts with 'Bearer ', else
\* the rest of the header trimmed, null when nothing is left.
extractBearerToken(auth) ==
    IF auth = <<>> THEN NULL
    ELSE IF auth[1] # "Bearer " THEN NULL
    ELSE IF Trim(auth[2]) = "" THEN NULL ELSE Trim(auth[2])

\* The values the header X-Org-Id may carry.
OrgIdHeaders == {NoOrg, EmptyOrg, OrgB}

HttpActive(r) == httpReqs[r].pc \notin {"idle", "done"}

\* A request arrives and takes a free slot.
HttpArrives(r) ==
    /\ ~HttpActive(r)
    /\ \A d \in ReqIds : d < r => HttpActive(d)

\* sessions.set(id, session) and sessions.delete(id)
SessionsSet(map, id, session) ==
    [k \in DOMAIN map \cup {id} |-> IF k = id THEN session ELSE map[k]]

SessionsDelete(map, id) == [k \in DOMAIN map \ {id} |-> map[k]]

\* createServer resolved with orgId: randomUUID(), the transport is created
\* and mcpServer.connect(transport) is awaited.
HttpCreateTransport(r, req, orgId) ==
    \E id \in SessionIds \ DOMAIN transports :
        /\ transports' = SessionsSet(transports, id, "open")
        /\ httpReqs' = [httpReqs EXCEPT ![r] =
              [req EXCEPT !.pc = "connect", !.orgId = orgId, !.sessionId = id]]

\* A POST to /mcp whose body is not JSON: readBody rejects and the request
\* is answered 500.
HttpPostInvalid(r) ==
    /\ HttpArrives(r)
    /\ httpReqs' = [httpReqs EXCEPT ![r] =
          [HttpIdle EXCEPT !.pc = "done", !.method = "POST", !.body = "invalid",
                           !.status = 500]]
    /\ UNCHANGED <<fiscalVars, env, authVars, sessions, transports, orcVars>>

\* A POST to /mcp with an initialize message: the Bearer token is taken
\* from the header and createServer called with it and X-Org-Id, up to the
\* await of resolveOrgId.
HttpPostInitialize(r, authorization, xOrgId) ==
    /\ HttpArrives(r)
    /\ LET apiKey == extractBearerToken(authorization)
           orgIdHeader == IF TruthyOrg(xOrgId) THEN xOrgId ELSE NoOrg
           orgId == IF TruthyOrg(orgIdHeader) THEN orgIdHeader ELSE env.GV_ORG_ID
           req == [HttpIdle EXCEPT !.method = "POST", !.body = "initialize",
                                   !.authorization = authorization,
                                   !.apiKey = apiKey, !.orgIdHeader = orgIdHeader]
       IN IF apiKey = NULL
          THEN /\ httpReqs' = [httpReqs EXCEPT ![r] =
                     [req EXCEPT !.pc = "done", !.status = 401]]
               /\ UNCHANGED transports
          ELSE IF IsMasterKey(apiKey, env.MASTER_API_KEY)
          THEN HttpCreateTransport(r, req, IF TruthyOrg(orgId) THEN orgId ELSE NoOrg)
          ELSE /\ httpReqs' = [httpReqs EXCEPT ![r] = [req EXCEPT !.pc = "select"]]
               /\ UNCHANGED transports
    /\ UNCHANGED <<fiscalVars, env, authVars, sessions, orcVars>>

\* A POST to /mcp with any other message: the session named by the header
\* Mcp-Session-Id is looked up and the message handed to its transport.
HttpPostMessage(r, sessionHeader) ==
    /\ HttpArrives(r)
    /\ LET req == [HttpIdle EXCEPT !.method = "POST", !.body = "tools/call",
                                   !.sessionHeader = sessionHeader,
                                   !.antes = DOMAIN sessions]
       IN httpReqs' = [httpReqs EXCEPT ![r] =
            IF sessionHeader = NULL \/ sessionHeader \notin DOMAIN sessions
            THEN [req EXCEPT !.pc = "done", !.status = 400]
            ELSE [req EXCEPT !.pc = "dispatch", !.dispatched = sessionHeader]]
    /\ UNCHANGED <<fiscalVars, env, authVars, sessions, transports, orcVars>>

\* createServer of an initialize: the query of resolveOrgId on api_keys
\* resolves; an Error is answered with 401.
HttpCreateServerSelect(r) ==
    /\ httpReqs[r].pc = "select"
    /\ LET data == SelectApiKey(Sha256(httpReqs[r].apiKey))
       IN IF data = NoRow
          THEN /\ httpReqs' = [httpReqs EXCEPT ![r] =
                     [@ EXCEPT !.pc = "done", !.status = 401]]
               /\ UNCHANGED transports
          ELSE HttpCreateTransport(r, httpReqs[r], data.organization_id)
    /\ UNCHANGED <<fiscalVars, env, authVars, sessions, orcVars>>

\* The await of mcpServer.connect has ended.  Resolved: the session is
\* registered and the initialize message dispatched to its transport.
\* Rejected: the catch of the listener answers 500 and no session is
\* registered.
HttpConnect(r) ==
    /\ httpReqs[r].pc = "connect"
    /\ \E outcome \in {"resolved", "rejected"} :
         IF outcome = "resolved"
         THEN /\ sessions' = SessionsSet(sessions, httpReqs[r].sessionId,
                                 [ orgId |-> httpReqs[r].orgId,
                                   authorization |-> httpReqs[r].authorization,
                                   orgIdHeader |-> httpReqs[r].orgIdHeader ])
              /\ httpReqs' = [httpReqs EXCEPT ![r] =
                    [@ EXCEPT !.pc = "dispatch", !.dispatched = httpReqs[r].sessionId]]
         ELSE /\ httpReqs' = [httpReqs EXCEPT ![r] = [@ EXCEPT !.pc = "done", !.status = 500]]
              /\ UNCHANGED sessions
    /\ UNCHANGED <<fiscalVars, env, authVars, transports, orcVars>>

\* The await of transport.handleRequest of a POST or a GET has ended.
\* Resolved: the transport has answered.  Rejected: the catch of the
\* listener answers 500, unless the transport had sent the headers of its
\* answer before.
HttpHandleRequestDone(r) ==
    /\ httpReqs[r].pc = "dispatch"
    /\ \E outcome \in {"resolved", "rejected"}, headersSent \in BOOLEAN :
         httpReqs' = [httpReqs EXCEPT ![r] =
             [@ EXCEPT !.pc = "done",
                       !.status = IF outcome = "resolved" \/ headersSent THEN 200 ELSE 500]]
    /\ UNCHANGED <<fiscalVars, env, authVars, sessions, transports, orcVars>>

\* A GET to /mcp (the SSE stream of a session).
HttpGet(r, sessionHeader) ==
    /\ HttpArrives(r)
    /\ LET req == [HttpIdle EXCEPT !.method = "GET", !.sessionHeader = sessionHeader,
                                   !.antes = DOMAIN sessions]
       IN httpReqs' = [httpReqs EXCEPT ![r] =
            IF sessionHeader = NULL \/ sessionHeader \notin DOMAIN sessions
            THEN [req EXCEPT !.pc = "done", !.status = 400]
            ELSE [req EXCEPT !.pc = "dispatch", !.dispatched = sessionHeader]]
    /\ UNCHANGED <<fiscalVars, env, authVars, sessions, transports, orcVars>>

\* A DELETE to /mcp: a known session is handed to its transport, anything
\* else is answered 200.
HttpDelete(r, sessionHeader) ==
    /\ HttpArrives(r)
    /\ LET req == [HttpIdle EXCEPT !.method = "DELETE", !.sessionHeader = sessionHeader,
                                   !.antes = DOMAIN sessions]
       IN httpReqs' = [httpReqs EXCEPT ![r] =
            IF sessionHeader # NULL /\ sessionHeader \in DOMAIN sessions
            THEN [req EXCEPT !.pc = "delete", !.dispatched = sessionHeader]
            ELSE [req EXCEPT !.pc = "done", !.status = 200]]
    /\ UNCHANGED <<fiscalVars, env, authVars, sessions, transports, orcVars>>

\* The await of transport.handleRequest of the DELETE has ended.  Resolved:
\* the transport has answered and sessions.delete runs.  Rejected:
\* sessions.delete is skipped and the catch of the listener answers 500,
\* unless the transport had sent the headers of its answer before.
HttpDeleteDone(r) ==
    /\ httpReqs[r].pc = "delete"
    /\ \E outcome \in {"resolved", "rejected"}, headersSent \in BOOLEAN :
         IF outcome = "resolved"
         THEN /\ sessions' = SessionsDelete(sessions, httpReqs[r].dispatched)
              /\ httpReqs' = [httpReqs EXCEPT ![r] = [@ EXCEPT !.pc = "done", !.status = 200]]
         ELSE /\ httpReqs' = [httpReqs EXCEPT ![r] =
                    [@ EXCEPT !.pc = "done", !.status = IF headersSent THEN 200 ELSE 500]]
              /\ UNCHANGED sessions
    /\ UNCHANGED <<fiscalVars, env, authVars, transports, orcVars>>

\* OPTIONS is answered 204, any other method 405.
HttpOutroMetodo(r, method) ==
    /\ HttpArrives(r)
    /\ httpReqs' = [httpReqs EXCEPT ![r] =
          [HttpIdle EXCEPT !.pc = "done", !.method = method,
                           !.status = IF method = "OPTIONS" THEN 204 ELSE 405]]
    /\ UNCHANGED <<fiscalVars, env, authVars, sessions, transports, orcVars>>

\* The transport of a registered session closes: its onclose handler runs
\* sessions.delete.
TransportClose(id) ==
    /\ id \in DOMAIN sessions
    /\ transports[id] = "open"
    /\ transports' = [transports EXCEPT ![id] = "closed"]
    /\ sessions' = SessionsDelete(sessions, id)
    /\ UNCHANGED <<fiscalVars, env, authVars, httpReqs, orcVars>>

\* An HTTP server with a master key, with or without GV_ORG_ID, over a
\* table of API keys with an active key of each tenant.
InitHttp ==
    /\ FiscalIdle
    /\ \E gvOrg \in {NoOrg, OrgB} :
         env = [EnvBase EXCEPT !.MASTER_API_KEY = "gv_master", !.GV_ORG_ID = gvOrg]
    /\ api_keys = { KeyRow("gv_key_a", OrgA, TRUE), KeyRow("gv_key_b", OrgB, TRUE) }
    /\ authCall = AuthIdle
    /\ HttpIdleState
    /\ OrcIdleState

NextHttp ==
    \/ \E r \in ReqIds : HttpPostInvalid(r)
    \/ \E r \in ReqIds, authorization \in AuthorizationHeaders, xOrgId \in OrgIdHeaders :
         HttpPostInitialize(r, authorization, xOrgId)
    \/ \E r \in ReqIds, sessionHeader \in SessionHeaders : HttpPostMessage(r, sessionHeader)
    \/ \E r \in ReqIds : HttpCreateServerSelect(r)
    \/ \E r \in ReqIds : HttpConnect(r)
    \/ \E r \in ReqIds : HttpHandleRequestDone(r)
    \/ \E r \in ReqIds, sessionHeader \in SessionHeaders : HttpGet(r, sessionHeader)
    \/ \E r \in ReqIds, sessionHeader \in SessionHeaders : HttpDelete(r, sessionHeader)
    \/ \E r \in ReqIds : HttpDeleteDone(r)
    \/ \E r \in ReqIds, method \in {"OPTIONS", "PUT"} : HttpOutroMetodo(r, method)
    \/ \E id \in SessionIds : TransportClose(id)

SpecHttp == InitHttp /\ [][NextHttp]_vars

(* ---------------------------- create_orcamento ------------------------- *)

\* max_quotes_month = null: the plan has no monthly limit.
NoLimit == 0 - 1

\* How an awaited call on the store resolves: with data, or with an error
\* ({ data: null, error }; the client does not throw).
StoreOutcomes == {"ok", "error"}

\* Items a caller sends: one unit at 10, and two units at 10 with a line
\* discount of 30, larger than the line.
OrcItemInputs ==
    { [ quantidade |-> 1, valor_unitario |-> 10, desconto |-> 0 ],
      [ quantidade |-> 2, valor_unitario |-> 10, desconto |-> 30 ] }

\* itens: z.array(ItemSchema).min(1), of one or two items here;
\* valor_desconto: z.number().min(0).
OrcInputs ==
    { [ itens |-> itens, valor_desconto |-> d ] :
        itens \in { <<i>> : i \in OrcItemInputs }
                  \cup { p \in OrcItemInputs \X OrcItemInputs : p[1] # p[2] },
        d \in {0, 15} }

\* Math.max
MathMax(a, b) == IF a >= b THEN a ELSE b

\* input.itens.map((item, i) => ...): subtotal and ordem of each item.
ItensCalculados(itens) ==
    [ i \in 1..Len(itens) |->
        [ quantidade |-> itens[i].quantidade,
          valor_unitario |-> itens[i].valor_unitario,
          desconto |-> itens[i].desconto,
          subtotal |-> MathMax(itens[i].quantidade * itens[i].valor_unitario
                               - itens[i].desconto, 0),
          ordem |-> i - 1 ] ]

\* itensCalculados.reduce((sum, it) => sum + it.subtotal, 0)
RECURSIVE SomaItens(_)
SomaItens(itens) ==
    IF Len(itens) = 0 THEN 0
    ELSE SomaItens(SubSeq(itens, 1, Len(itens) - 1)) + itens[Len(itens)].subtotal

\* valorTotal
ValorTotal(input) ==
    MathMax(SomaItens(ItensCalculados(input.itens)) - input.valor_desconto, 0)

\* The row the insert into orcamentos makes; the store gives the id.
OrcamentoRow(id, orgId, input) ==
    [ id |-> id, organization_id |-> orgId, status |-> "criado",
      valor_desconto |-> input.valor_desconto, valor_total |-> ValorTotal(input) ]

\* itensParaInserir
ItensParaInserir(id, itens) ==
    { [ orcamento_id |-> id,
        quantidade |-> ItensCalculados(itens)[i].quantidade,
        valor_unitario |-> ItensCalculados(itens)[i].valor_unitario,
        desconto |-> ItensCalculados(itens)[i].desconto,
        ordem |-> ItensCalculados(itens)[i].ordem ] : i \in 1..Len(itens) }

\* Call slot k is the one a new call of a budget tool takes: the first that
\* holds no call in progress.  Calls may overlap: a call is made while
\* another awaits the store.
OrcFreeSlot(k) ==
    /\ orcCall[k].pc \in {"idle", "done"}
    /\ \A j \in CallIds : j < k => orcCall[j].pc \notin {"idle", "done"}

\* The handler returns with the text.
OrcReturn(k, text) ==
    orcCall' = [orcCall EXCEPT ![k].pc = "done", ![k].result = text]

\* create_orcamento is called in a session of orgId: without a tenant it
\* returns at once, else it awaits the usage row of enforceQuotesLimit.
CreateOrcamento(k, orgId, input) ==
    /\ OrcFreeSlot(k)
    /\ orcStarted < MaxOrcamentos
    /\ orcStarted' = orcStarted + 1
    /\ LET call == [OrcIdle EXCEPT !.tool = "create_orcamento", !.n = orcStarted + 1,
                                   !.orgId = orgId,
                                   !.input = input,
                                   !.antes = [ orcamentos |-> orcamentos,
                                               orcamento_itens |-> orcamento_itens,
                                               usage |-> usage ]]
       IN  orcCall' = [orcCall EXCEPT ![k] =
                      IF TruthyOrg(orgId)
                      THEN [call EXCEPT !.pc = "usage"]
                      ELSE [call EXCEPT !.pc = "done", !.result = "Erro: orgId obrigatório"]]
    /\ UNCHANGED <<fiscalVars, env, authVars, httpVars, orcamentos, orcamento_itens, usage>>

\* enforceQuotesLimit once the select on the usage view has resolved: no row
\* (or an error) lets the call go on, a reached limit ends it, else the
\* insert of the budget row is issued.
EnforceQuotesLimit(k) ==
    /\ orcCall[k].pc = "usage"
    /\ \E outcome \in StoreOutcomes :
         LET data == IF outcome = "ok" THEN usage[orcCall[k].orgId] ELSE NoRow
         IN  IF /\ data # NoRow
                /\ data.max_quotes_month # NoLimit
                /\ data.quotes_used >= data.max_quotes_month
             THEN orcCall' = [orcCall EXCEPT ![k].pc = "done", ![k].usage = data,
                                             ![k].result = "Limite: Limite de orçamentos atingido"]
             ELSE orcCall' = [orcCall EXCEPT ![k].pc = "insert_orcamento", ![k].usage = data]
    /\ UNCHANGED <<fiscalVars, env, authVars, httpVars, orcamentos, orcamento_itens,
                   usage, orcStarted>>

\* The insert into orcamentos has resolved: with the new row, or with an
\* error, which ends the call.
OrcInserirOrcamento(k) ==
    /\ orcCall[k].pc = "insert_orcamento"
    /\ \E outcome \in StoreOutcomes :
         IF outcome = "ok"
         THEN LET row == OrcamentoRow(orcCall[k].n, orcCall[k].orgId, orcCall[k].input)
              IN  /\ orcamentos' = orcamentos \cup {row}
                  /\ orcCall' = [orcCall EXCEPT ![k].pc = "insert_itens", ![k].orcamento = row]
         ELSE /\ OrcReturn(k, "Erro ao criar orçamento")
              /\ UNCHANGED orcamentos
    /\ UNCHANGED <<fiscalVars, env, authVars, httpVars, orcamento_itens, usage, orcStarted>>

\* The insert of all the items, one statement, has resolved: with the rows
\* in the table, and incrementQuotes is called, or with an error and no row,
\* and the delete of the budget row is issued.
OrcInserirItens(k) ==
    /\ orcCall[k].pc = "insert_itens"
    /\ \E outcome \in StoreOutcomes :
         IF outcome = "ok"
         THEN /\ orcamento_itens' = orcamento_itens
                     \cup ItensParaInserir(orcCall[k].orcamento.id, orcCall[k].input.itens)
              /\ orcCall' = [orcCall EXCEPT ![k].pc = "increment"]
         ELSE /\ orcCall' = [orcCall EXCEPT ![k].pc = "rollback", ![k].itensErr = "error"]
              /\ UNCHANGED orcamento_itens
    /\ UNCHANGED <<fiscalVars, env, authVars, httpVars, orcamentos, usage, orcStarted>>

\* The delete of the budget row has resolved, with the row gone or with an
\* error the handler does not look at; the handler returns the item error.
OrcRollback(k) ==
    /\ orcCall[k].pc = "rollback"
    /\ \E outcome \in StoreOutcomes :
         orcamentos' = IF outcome = "ok"
                       THEN { o \in orcamentos : o.id # orcCall[k].orcamento.id }
                       ELSE orcamentos
    /\ OrcReturn(k, "Erro ao criar itens")
    /\ UNCHANGED <<fiscalVars, env, authVars, httpVars, orcamento_itens, usage, orcStarted>>

\* incrementQuotes has resolved: the rpc increment_quotes_count added one to
\* the tenant's counter, or ended with an error the handler does not look
\* at; the handler returns the budget.
IncrementQuotes(k) ==
    /\ orcCall[k].pc = "increment"
    /\ \E outcome \in StoreOutcomes :
         usage' = IF outcome = "ok"
                  THEN [usage EXCEPT ![orcCall[k].orgId].quotes_used = @ + 1]
                  ELSE usage
    /\ OrcReturn(k, "ok")
    /\ UNCHANGED <<fiscalVars, env, authVars, httpVars, orcamentos, orcamento_itens, orcStarted>>

\* A field of the input of update_orcamento that was not sent (undefined),
\* for a number.
UndefinedNumber == 0 - 1

\* The ids a caller may name: that of the budget made before and those the
\* store gives to the budgets of the calls, among them ids of budgets not
\* made or already removed.
OrcIds == 0..(MaxOrcamentos - 1)

\* What a caller sends to update_orcamento: status and valor_desconto, each
\* sent or not.
UpdateInputs ==
    { [ id |-> id, status |-> st, valor_desconto |-> d ] :
        id \in OrcIds, st \in {NULL, "aprovado"}, d \in {UndefinedNumber, 5} }

\* .from('orcamentos').select('id').eq('id', id).eq('organization_id', orgId)
SelectOrcamento(id, orgId) ==
    { o \in orcamentos : o.id = id /\ o.organization_id = orgId }

\* update_orcamento is called in a session of orgId with an id and the
\* fields to change: without a tenant it returns at once, else it awaits the
\* select of the budget.
UpdateOrcamento(k, orgId, input) ==
    /\ OrcFreeSlot(k)
    /\ orcStarted < MaxOrcamentos
    /\ orcStarted' = orcStarted + 1
    /\ LET call == [OrcIdle EXCEPT !.tool = "update_orcamento", !.n = orcStarted + 1, !.orgId = orgId,
                                   !.input = input,
                                   !.antes = [ orcamentos |-> orcamentos,
                                               orcamento_itens |-> orcamento_itens,
                                               usage |-> usage ]]
       IN  orcCall' = [orcCall EXCEPT ![k] =
                      IF TruthyOrg(orgId)
                      THEN [call EXCEPT !.pc = "select"]
                      ELSE [call EXCEPT !.pc = "done", !.result = "Erro: orgId obrigatório"]]
    /\ UNCHANGED <<fiscalVars, env, authVars, httpVars, orcamentos, orcamento_itens, usage>>

\* The select of the budget of the tenant has resolved: without a row (none
\* found, or an error) update_orcamento returns, else it issues the update.
UpdateOrcamentoSelect(k) ==
    /\ orcCall[k].tool = "update_orcamento"
    /\ orcCall[k].pc = "select"
    /\ \E outcome \in StoreOutcomes :
         LET rows == IF outcome = "ok"
                     THEN SelectOrcamento(orcCall[k].input.id, orcCall[k].orgId) ELSE {}
         IN  IF Cardinality(rows) = 1
             THEN orcCall' = [orcCall EXCEPT ![k].pc = "update"]
             ELSE OrcReturn(k, "Orçamento não encontrado")
    /\ UNCHANGED <<fiscalVars, env, authVars, httpVars, orcamentos, orcamento_itens,
                   usage, orcStarted>>

\* The update of the budget row has resolved: the row has the fields sent,
\* valor_total as it was, or the update ended with an error.
UpdateOrcamentoUpdate(k) ==
    /\ orcCall[k].tool = "update_orcamento"
    /\ orcCall[k].pc = "update"
    /\ \E outcome \in StoreOutcomes :
         LET rows == SelectOrcamento(orcCall[k].input.id, orcCall[k].orgId)
         IN  IF outcome = "ok" /\ Cardinality(rows) = 1
             THEN /\ orcamentos' = (orcamentos \ rows)
                        \cup { [o EXCEPT
                                   !.status = IF orcCall[k].input.status # NULL
                                              THEN orcCall[k].input.status ELSE @,
                                   !.valor_desconto =
                                       IF orcCall[k].input.valor_desconto # UndefinedNumber
                                       THEN orcCall[k].input.valor_desconto ELSE @]
                               : o \in rows }
                  /\ OrcReturn(k, "ok")
             ELSE /\ OrcReturn(k, "Erro: store error")
                  /\ UNCHANGED orcamentos
    /\ UNCHANGED <<fiscalVars, env, authVars, httpVars, orcamento_itens, usage, orcStarted>>

\* delete_orcamento is called in a session of orgId with an id: without a
\* tenant it returns at once, else it awaits the select of the budget.
DeleteOrcamento(k, orgId, id) ==
    /\ OrcFreeSlot(k)
    /\ orcStarted < MaxOrcamentos
    /\ orcStarted' = orcStarted + 1
    /\ LET call == [OrcIdle EXCEPT !.tool = "delete_orcamento", !.n = orcStarted + 1, !.orgId = orgId,
                                   !.input = [id |-> id],
                                   !.antes = [ orcamentos |-> orcamentos,
                                               orcamento_itens |-> orcamento_itens,
                                               usage |-> usage ]]
       IN  orcCall' = [orcCall EXCEPT ![k] =
                      IF TruthyOrg(orgId)
                      THEN [call EXCEPT !.pc = "select"]
                      ELSE [call EXCEPT !.pc = "done", !.result = "Erro: orgId obrigatório"]]
    /\ UNCHANGED <<fiscalVars, env, authVars, httpVars, orcamentos, orcamento_itens, usage>>

\* The select of the budget of the tenant has resolved: without a row (none
\* found, or an error) delete_orcamento returns, else it issues the delete
\* of the items.
DeleteOrcamentoSelect(k) ==
    /\ orcCall[k].tool = "delete_orcamento"
    /\ orcCall[k].pc = "select"
    /\ \E outcome \in StoreOutcomes :
         LET rows == IF outcome = "ok"
                     THEN SelectOrcamento(orcCall[k].input.id, orcCall[k].orgId) ELSE {}
         IN  IF Cardinality(rows) = 1
             THEN orcCall' = [orcCall EXCEPT ![k].pc = "delete_itens"]
             ELSE OrcReturn(k, "Orçamento não encontrado")
    /\ UNCHANGED <<fiscalVars, env, authVars, httpVars, orcamentos, orcamento_itens,
                   usage, orcStarted>>

\* The delete of the items of the budget has resolved, with the rows gone or
\* with an error the handler does not look at; the delete of the budget row
\* is issued.
DeleteOrcamentoItens(k) ==
    /\ orcCall[k].pc = "delete_itens"
    /\ \E outcome \in StoreOutcomes :
         orcamento_itens' = IF outcome = "ok"
                            THEN { i \in orcamento_itens : i.orcamento_id # orcCall[k].input.id }
                            ELSE orcamento_itens
    /\ orcCall' = [orcCall EXCEPT ![k].pc = "delete_orcamento"]
    /\ UNCHANGED <<fiscalVars, env, authVars, httpVars, orcamentos, usage, orcStarted>>

\* The delete of the budget row, by id alone, has resolved: the row is gone
\* and the handler returns success, or it returns the error.
DeleteOrcamentoRow(k) ==
    /\ orcCall[k].pc = "delete_orcamento"
    /\ \E outcome \in StoreOutcomes :
         IF outcome = "ok"
         THEN /\ orcamentos' = { o \in orcamentos : o.id # orcCall[k].input.id }
              /\ OrcReturn(k, "success")
         ELSE /\ OrcReturn(k, "Erro: store error")
              /\ UNCHANGED orcamentos
    /\ UNCHANGED <<fiscalVars, env, authVars, httpVars, orcamento_itens, usage, orcStarted>>

\* Tenant A has one budget, of one item, made before (its id is 0, the
\* budgets of the calls get the ids from 1 on) and has made no or one budget
\* this month on a plan without limit or with a limit of one or two; tenant
\* B is on a plan without limit.
InitOrcamento ==
    /\ FiscalIdle
    /\ env = EnvBase
    /\ AuthIdleState
    /\ HttpIdleState
    /\ LET input == [ itens |-> << [ quantidade |-> 1, valor_unitario |-> 10,
                                       desconto |-> 0 ] >>,
                        valor_desconto |-> 0 ]
       IN  /\ orcamentos = { OrcamentoRow(0, OrgA, input) }
           /\ orcamento_itens = ItensParaInserir(0, input.itens)
    /\ \E used \in {0, 1}, limit \in {NoLimit, 1, 2} :
         usage = [o \in Orgs |->
                     IF o = OrgA THEN [ quotes_used |-> used, max_quotes_month |-> limit ]
                     ELSE [ quotes_used |-> 0, max_quotes_month |-> NoLimit ]]
    /\ orcCall = [k \in CallIds |-> OrcIdle]
    /\ orcStarted = 0

NextOrcamento ==
    \/ \E k \in CallIds, orgId \in SessionOrgs, input \in OrcInputs :
         CreateOrcamento(k, orgId, input)
    \/ \E k \in CallIds : EnforceQuotesLimit(k)
    \/ \E k \in CallIds : OrcInserirOrcamento(k)
    \/ \E k \in CallIds : OrcInserirItens(k)
    \/ \E k \in CallIds : OrcRollback(k)
    \/ \E k \in CallIds : IncrementQuotes(k)
    \/ \E k \in CallIds, orgId \in SessionOrgs, input \in UpdateInputs :
         UpdateOrcamento(k, orgId, input)
    \/ \E k \in CallIds : UpdateOrcamentoSelect(k)
    \/ \E k \in CallIds : UpdateOrcamentoUpdate(k)
    \/ \E k \in CallIds, orgId \in SessionOrgs, id \in OrcIds :
         DeleteOrcamento(k, orgId, id)
    \/ \E k \in CallIds : DeleteOrcamentoSelect(k)
    \/ \E k \in CallIds : DeleteOrcamentoItens(k)
    \/ \E k \in CallIds : DeleteOrcamentoRow(k)

SpecOrcamento == InitOrcamento /\ [][NextOrcamento]_vars

(* ------------------------------- claims -------------------------------- *)

ValidationTexts ==
    { "Apenas notas em rascunho podem ser emitidas",
      "Nota deve ter pelo menos um item",
      "NFe nao esta habilitada na configuracao fiscal",
      "NFSe nao esta habilitada na configuracao fiscal",
      "Certificado digital expirado",
      "Dados do destinatario incompletos (nome e CPF/CNPJ obrigatorios)",
      "Dados do tomador incompletos",
      "Endereco do destinatario incompleto" }

NotFoundTexts ==
    { "NFe nao encontrada", "NFSe nao encontrada",
      "Configuracao fiscal nao encontrada. Configure pelo app web." }

\* The call made no write to any table and no request to the gateway.
NothingDone(c) ==
    /\ notas_fiscais = calls[c].antes.notas_fiscais
    /\ notas_fiscais_itens = calls[c].antes.notas_fiscais_itens
    /\ fiscal_config = calls[c].antes.fiscal_config
    /\ fiscal_eventos = calls[c].antes.fiscal_eventos
    /\ focusRequests = calls[c].antes.focusRequests

\* The document the call names exists and is of the caller's tenant and of
\* the kind of the entry point called.
DocFound(c) ==
    /\ calls[c].pc # "idle"
    /\ calls[c].orgId # NoOrg
    /\ calls[c].nota_id \in NotaIds
    /\ calls[c].antes.notas_fiscais[calls[c].nota_id].organization_id = calls[c].orgId
    /\ calls[c].antes.notas_fiscais[calls[c].nota_id].tipo = calls[c].tool

\* The row of that document when the call was made.
DocBefore(c) == calls[c].antes.notas_fiscais[calls[c].nota_id]

ItensBefore(c) ==
    { i \in calls[c].antes.notas_fiscais_itens : i.nota_fiscal_id = calls[c].nota_id }

\* C1: an emit call of either kind on a document of its tenant and kind whose
\* stored status is not 'rascunho' returns the validation text, leaves the
\* stored status as it was, sends nothing to the gateway and writes nothing.
C1_NaoRascunhoRecusada ==
    \A c \in CallIds :
        ( /\ DocFound(c)
          /\ DocBefore(c).status # "rascunho"
          /\ calls[c].pc # "nota_lida" )
        => /\ calls[c].pc = "done"
           /\ calls[c].result = "Apenas notas em rascunho podem ser emitidas"
           /\ notas_fiscais[calls[c].nota_id].status = DocBefore(c).status
           /\ NothingDone(c)

C1_Witness ==
    \E c \in CallIds :
        /\ DocFound(c)
        /\ DocBefore(c).status = "autorizada"
        /\ calls[c].pc = "done"
        /\ calls[c].tool = "nfse"

\* C2: emit_nfe on a draft goods document without items returns the
\* validation text; the gateway received no request from the call and the
\* stored status is still 'rascunho'.
C2_SemItensRecusada ==
    \A c \in CallIds :
        ( /\ DocFound(c)
          /\ calls[c].tool = "nfe"
          /\ DocBefore(c).status = "rascunho"
          /\ ItensBefore(c) = {}
          /\ calls[c].pc \notin {"nota_lida", "itens_lidos"} )
        => /\ calls[c].pc = "done"
           /\ calls[c].result = "Nota deve ter pelo menos um item"
           /\ Len(focusRequests) - Len(calls[c].antes.focusRequests) = 0
           /\ notas_fiscais[calls[c].nota_id].status = "rascunho"
           /\ NothingDone(c)

C2_Witness ==
    \E c \in CallIds :
        /\ DocFound(c)
        /\ calls[c].tool = "nfe"
        /\ DocBefore(c).status = "rascunho"
        /\ ItensBefore(c) = {}
        /\ calls[c].pc = "done"

\* A kind-specific precondition fails for the document and configuration.
PreconditionFails(tipo, cfg, n) ==
    \/ tipo = "nfe" /\ ~cfg.nfe_habilitado
    \/ tipo = "nfse" /\ ~cfg.nfse_habilitado
    \/ n.destinatario_nome = NULL
    \/ n.destinatario_cpf_cnpj = NULL
    \/ /\ tipo = "nfe"
       /\ \/ n.destinatario_logradouro = NULL
          \/ n.destinatario_municipio = NULL
          \/ n.destinatario_uf = NULL
          \/ cfg.certificado_validade # NoNumber /\ cfg.certificado_validade < Hoje

\* The call reaches the kind-specific preconditions: a draft of the tenant
\* and kind, with items for goods, and a configuration row.
ReachesPreconditions(c) ==
    /\ DocFound(c)
    /\ DocBefore(c).status = "rascunho"
    /\ calls[c].tool = "nfe" => ItensBefore(c) # {}
    /\ calls[c].antes.fiscal_config[calls[c].orgId] # NoRow

\* C3: when a kind-specific precondition fails on a draft, emit returns a
\* validation text (the certificate text for an expired certificate of an
\* enabled tenant), the stored status is still 'rascunho', no table was
\* written and the gateway received nothing.
C3_PrecondicaoSemEfeito ==
    \A c \in CallIds :
        ( /\ ReachesPreconditions(c)
          /\ PreconditionFails(calls[c].tool, calls[c].antes.fiscal_config[calls[c].orgId],
                               DocBefore(c))
          /\ calls[c].pc \notin {"nota_lida", "itens_lidos", "config_lida"} )
        => /\ calls[c].pc = "done"
           /\ calls[c].result \in ValidationTexts
           /\ ( /\ calls[c].tool = "nfe"
                /\ calls[c].antes.fiscal_config[calls[c].orgId].nfe_habilitado
                /\ calls[c].antes.fiscal_config[calls[c].orgId].certificado_validade # NoNumber
                /\ calls[c].antes.fiscal_config[calls[c].orgId].certificado_validade < Hoje )
              => calls[c].result = "Certificado digital expirado"
           /\ notas_fiscais[calls[c].nota_id].status = "rascunho"
           /\ NothingDone(c)

C3_Witness ==
    \E c \in CallIds :
        /\ ReachesPreconditions(c)
        /\ calls[c].pc = "done"
        /\ calls[c].result = "Certificado digital expirado"

\* The call was made for a tenant and names a document that does not exist,
\* is of another tenant, or is of the other kind.
DocMissing(c) ==
    /\ calls[c].pc # "idle"
    /\ calls[c].orgId # NoOrg
    /\ ~DocFound(c)

\* The tenant of the call has no fiscal_config row.
ConfigMissing(c) ==
    /\ calls[c].pc # "idle"
    /\ calls[c].orgId # NoOrg
    /\ calls[c].antes.fiscal_config[calls[c].orgId] = NoRow

\* C4 as stated: a missing document or a missing configuration row makes emit
\* end with a not-found text, with the store untouched and no gateway request.
C4_Original ==
    \A c \in CallIds :
        (DocMissing(c) \/ ConfigMissing(c))
        => /\ calls[c].pc \in {"nota_lida", "itens_lidos", "config_lida", "done"}
           /\ calls[c].pc = "done" => calls[c].result \in NotFoundTexts
           /\ NothingDone(c)

\* C4 (amended): a missing document ends the call with the not-found text of
\* the kind; a missing configuration row ends it with the configuration text
\* when the document is a draft of the tenant (with an item, for goods); in
\* both cases no table is written and the gateway receives nothing.
C4_NaoEncontrada ==
    \A c \in CallIds :
        /\ ( DocMissing(c) /\ calls[c].pc # "nota_lida" )
           => /\ calls[c].pc = "done"
              /\ calls[c].result = IF calls[c].tool = "nfe" THEN "NFe nao encontrada"
                                   ELSE "NFSe nao encontrada"
              /\ NothingDone(c)
        /\ ( /\ ConfigMissing(c)
             /\ DocFound(c)
             /\ DocBefore(c).status = "rascunho"
             /\ calls[c].tool = "nfe" => ItensBefore(c) # {}
             /\ calls[c].pc \notin {"nota_lida", "itens_lidos", "config_lida"} )
           => /\ calls[c].pc = "done"
              /\ calls[c].result = "Configuracao fiscal nao encontrada. Configure pelo app web."
              /\ NothingDone(c)
        /\ ( ConfigMissing(c) \/ DocMissing(c) )
           => /\ calls[c].pc \in {"nota_lida", "itens_lidos", "config_lida", "done"}
              /\ NothingDone(c)

C4_Witness ==
    \E c \in CallIds :
        /\ DocMissing(c)
        /\ calls[c].nota_id \in NotaIds
        /\ calls[c].antes.notas_fiscais[calls[c].nota_id].organization_id # calls[c].orgId
        /\ calls[c].antes.notas_fiscais[calls[c].nota_id].tipo = calls[c].tool
        /\ calls[c].pc = "done"

\* The stored status the claim gives for a gateway status string and a kind.
StatusEsperado(tipo, focusStatus) ==
    CASE focusStatus = "autorizado" -> "autorizada"
      [] focusStatus = "erro_autorizacao" -> "rejeitada"
      [] focusStatus = "denegado" /\ tipo = "nfe" -> "rejeitada"
      [] OTHER -> "processando"

\* C5: once the result of a successful gateway response is stored, the stored
\* status is the one the table above gives for the gateway status string and
\* the kind of the document.
C5_StatusMapeado ==
    \A c \in CallIds :
        ( \/ calls[c].pc \in {"registrar_evento", "reler"}
          \/ calls[c].pc = "done" /\ calls[c].result = "success" )
        => /\ notas_fiscais[calls[c].nota_id].status
                = StatusEsperado(calls[c].tool, calls[c].response.status)
           /\ notas_fiscais[calls[c].nota_id].focus_nfe_status = calls[c].response.status

C5_Witness ==
    \E c \in CallIds :
        /\ calls[c].pc = "done"
        /\ calls[c].result = "success"
        /\ calls[c].tool = "nfse"
        /\ calls[c].response.status = "denegado"
        /\ notas_fiscais[calls[c].nota_id].status = "processando"

\* The last-used-number counter of a tenant and kind.
UltimoNumero(config, org, tipo) == config[org][UltimoNumeroField(tipo)]

\* C6: an emit call answered 'autorizado' with number N ends with the
\* document stored as 'autorizada' with numero = N and the counter of the
\* tenant and kind at least N; and whenever no emit call is in flight the
\* counter is at least the numero of every authorized document of the tenant
\* and kind.
C6_ContadorCobreNumeros ==
    /\ \A c \in CallIds :
         ( /\ calls[c].pc = "done"
           /\ calls[c].result = "success"
           /\ calls[c].response.status = "autorizado"
           /\ calls[c].response.numero # <<>> )
         => /\ notas_fiscais[calls[c].nota_id].status = "autorizada"
            /\ notas_fiscais[calls[c].nota_id].numero = ParseInt(calls[c].response.numero)
            /\ UltimoNumero(fiscal_config, calls[c].orgId, calls[c].tool)
                 >= ParseInt(calls[c].response.numero)
    /\ (\A c \in CallIds : ~Active(c))
       => \A id \in NotaIds :
            ( /\ notas_fiscais[id].status = "autorizada"
              /\ fiscal_config[notas_fiscais[id].organization_id] # NoRow )
            => UltimoNumero(fiscal_config, notas_fiscais[id].organization_id,
                            notas_fiscais[id].tipo) >= notas_fiscais[id].numero

\* C7: no step lowers the last-used-number counter of any tenant and kind.
C7_ContadorMonotono ==
    [][ \A org \in Orgs, tipo \in Tipos :
          fiscal_config[org] # NoRow
          => UltimoNumero(fiscal_config', org, tipo) >= UltimoNumero(fiscal_config, org, tipo)
      ]_vars

\* The error events recorded for a document.
EventosErro(nota_id) ==
    { i \in 1..Len(fiscal_eventos) :
        fiscal_eventos[i].nota_fiscal_id = nota_id /\ fiscal_eventos[i].tipo = "erro" }

\* C8: a call whose gateway submission failed goes through the catch branch
\* and ends with the document stored in 'erro' with the failure message, and
\* with exactly one event of kind 'erro' for that document.
C8_FalhaViraErro ==
    \A c \in CallIds :
        calls[c].err \in FocusErrors
        => /\ calls[c].pc \in {"catch_nota", "catch_evento", "done"}
           /\ calls[c].pc = "done"
              => /\ calls[c].result \in {"Erro ao emitir NFe", "Erro ao emitir NFSe"}
                 /\ notas_fiscais[calls[c].nota_id].status = "erro"
                 /\ notas_fiscais[calls[c].nota_id].mensagem_sefaz = calls[c].err
                 /\ Cardinality(EventosErro(calls[c].nota_id)) = 1

C8_Witness ==
    \E c \in CallIds :
        /\ calls[c].pc = "done"
        /\ calls[c].err = "fetch failed"
        /\ notas_fiscais[calls[c].nota_id].status = "erro"

\* The call meets every precondition of its kind.
PassesPreconditions(c) ==
    /\ ReachesPreconditions(c)
    /\ ~PreconditionFails(calls[c].tool, calls[c].antes.fiscal_config[calls[c].orgId],
                          DocBefore(c))

\* The rows the event log gained since the call was made.
EventosDaChamada(c) ==
    SubSeq(fiscal_eventos, Len(calls[c].antes.fiscal_eventos) + 1, Len(fiscal_eventos))

\* C9: every emit call that passes its preconditions has appended exactly one
\* event row when it ends: of kind 'emissao' with the raw gateway response
\* when the gateway call succeeded, of kind 'erro' with {error: message}
\* when it failed.
C9_UmEventoPorTentativa ==
    \A c \in CallIds :
        ( PassesPreconditions(c) /\ calls[c].pc = "done" )
        => /\ Len(EventosDaChamada(c)) = 1
           /\ EventosDaChamada(c)[1].nota_fiscal_id = calls[c].nota_id
           /\ calls[c].response # NoRow
              => /\ EventosDaChamada(c)[1].tipo = "emissao"
                 /\ EventosDaChamada(c)[1].dados = calls[c].response
           /\ calls[c].response = NoRow
              => /\ EventosDaChamada(c)[1].tipo = "erro"
                 /\ EventosDaChamada(c)[1].dados = [error |-> calls[c].err]

\* C10 as stated: every emit call that has ended, also one that ended with a
\* not-found or validation text, added exactly one event row.
C10_Original ==
    \A c \in CallIds :
        ( calls[c].pc = "done" /\ calls[c].orgId # NoOrg )
        => Len(fiscal_eventos) = Len(calls[c].antes.fiscal_eventos) + 1

\* C10 (amended): the rows the event log held when a call was made are still
\* there, unchanged and in place, at every step of the call; a call that ends
\* with success or with the emission-error text has added exactly one row
\* when the store accepted its insert and none when the store rejected it,
\* and a call that ends any other way has added none.
C10_LogSoCresce ==
    \A c \in CallIds :
        calls[c].pc # "idle"
        => /\ Len(fiscal_eventos) >= Len(calls[c].antes.fiscal_eventos)
           /\ SubSeq(fiscal_eventos, 1, Len(calls[c].antes.fiscal_eventos))
                = calls[c].antes.fiscal_eventos
           /\ calls[c].pc = "done"
              => Len(EventosDaChamada(c))
                   = IF /\ calls[c].result
                             \in {"success", "Erro ao emitir NFe", "Erro ao emitir NFSe"}
                        /\ calls[c].eventoErr = NULL
                     THEN 1 ELSE 0

\* A call on a service draft ended with the emission-error text and its
\* error event accepted, as the second row of the log, after an earlier call
\* had added the first.
C10_Witness ==
    \E c \in CallIds :
        /\ calls[c].pc = "done"
        /\ calls[c].result = "Erro ao emitir NFSe"
        /\ calls[c].eventoErr = NULL
        /\ Len(calls[c].antes.fiscal_eventos) = 1
        /\ Len(fiscal_eventos) = 2

\* The configuration row of the tenant of the call when the call was made.
ConfigBefore(c) == calls[c].antes.fiscal_config[calls[c].orgId]

\* C11: an emit call that passes its preconditions for a tenant whose
\* configuration resolves no credential (environment slot, legacy token and
\* master token all empty) ends with the document still stored as 'rascunho'
\* and with no request made to the gateway.
C11_SemCredencialSemEfeito ==
    \A c \in CallIds :
        ( /\ PassesPreconditions(c)
          /\ resolveFocusToken(ConfigBefore(c)) = NULL
          /\ calls[c].pc = "done" )
        => /\ notas_fiscais[calls[c].nota_id].status = "rascunho"
           /\ focusRequests = calls[c].antes.focusRequests

\* The gateway request of the call is in flight: sent and not yet answered.
InFlight(c) == calls[c].pc = "aguardando"

\* C12 as stated: whenever the gateway request of a call is in flight, the
\* document is stored as 'processando' with the reference id of that request.
C12_Original ==
    \A c \in CallIds :
        InFlight(c)
        => /\ notas_fiscais[calls[c].nota_id].status = "processando"
           /\ notas_fiscais[calls[c].nota_id].focus_nfe_ref = calls[c].focusRef

\* C13: no step stores 'rascunho' on a document whose stored status is not
\* 'rascunho'; every failure raised after the write of 'processando' takes
\* the call to its catch branch, and the step of the catch branch stores
\* 'erro' with the failure message on the document.
C13_SemVoltaARascunho ==
    [][ /\ \A id \in NotaIds :
             notas_fiscais[id].status # "rascunho" => notas_fiscais'[id].status # "rascunho"
        /\ \A c \in CallIds :
             /\ ( calls[c].pc \in {"enviar", "aguardando"} /\ calls'[c].err # NULL )
                => calls'[c].pc = "catch_nota"
             /\ ( calls[c].pc = "catch_nota" /\ calls'[c].pc # "catch_nota" )
                => /\ calls'[c].pc = "catch_evento"
                   /\ notas_fiscais'[calls[c].nota_id].status = "erro"
                   /\ notas_fiscais'[calls[c].nota_id].mensagem_sefaz = calls[c].err
      ]_vars

C13_Witness ==
    \E c \in CallIds :
        /\ calls[c].pc = "catch_evento"
        /\ calls[c].err = "HTTP 500"
        /\ calls[c].antes.notas_fiscais[calls[c].nota_id].status = "rascunho"
        /\ notas_fiscais[calls[c].nota_id].status = "erro"
        /\ notas_fiscais[calls[c].nota_id].focus_nfe_ref = calls[c].focusRef

\* The requests the gateway received for a document.
RequestsOf(requests, nota_id) ==
    { i \in 1..Len(requests) : requests[i].nota_id = nota_id }

\* C14: with emit calls that do not overlap, a call adds at most one request
\* to the gateway log, the gateway receives at most one request per
\* document, and a call on a document that an earlier attempt left in a
\* status other than 'rascunho' is refused and changes nothing.
C14_SemNovaTentativa ==
    /\ \A c \in CallIds :
         calls[c].pc # "idle"
         => Len(focusRequests) - Len(calls[c].antes.focusRequests) \in {0, 1}
    /\ \A id \in NotaIds : Cardinality(RequestsOf(focusRequests, id)) <= 1
    /\ \A c \in CallIds :
         ( /\ DocFound(c)
           /\ DocBefore(c).focus_nfe_ref # NoRef
           /\ calls[c].pc # "nota_lida" )
         => /\ DocBefore(c).status # "rascunho"
            /\ calls[c].pc = "done"
            /\ calls[c].result = "Apenas notas em rascunho podem ser emitidas"
            /\ notas_fiscais[calls[c].nota_id] = DocBefore(c)
            /\ NothingDone(c)

C14_Witness ==
    \E c \in CallIds :
        /\ DocFound(c)
        /\ DocBefore(c).status = "erro"
        /\ DocBefore(c).focus_nfe_ref # NoRef
        /\ Cardinality(RequestsOf(calls[c].antes.focusRequests, calls[c].nota_id)) = 1
        /\ calls[c].pc = "done"
        /\ notas_fiscais[calls[c].nota_id].status = "erro"

\* The call read its document and found it stored as 'rascunho'.
ReadDraft(c) ==
    /\ calls[c].pc # "idle"
    /\ calls[c].nota # NoRow
    /\ calls[c].nota.status = "rascunho"

\* The call is past the point where it sends its request to the gateway.
Sent(c) ==
    \/ calls[c].pc \in {"aguardando", "atualizar_config", "atualizar_nota",
                         "registrar_evento", "reler"}
    \/ calls[c].pc \in {"catch_nota", "catch_evento", "done"} /\ calls[c].err \in FocusErrors
    \/ calls[c].pc = "done" /\ calls[c].result = "success"

\* C15: two emit calls that both read the same document as 'rascunho' are
\* both let through: neither is refused by the status check, each sends its
\* own request carrying the reference id it generated, and when both have
\* ended the gateway has received two requests for the document.
C15_SemSerializacao ==
    \A c \in CallIds, d \in CallIds :
        ( /\ c # d
          /\ ReadDraft(c) /\ ReadDraft(d)
          /\ calls[c].nota_id = calls[d].nota_id )
        => /\ calls[c].result # "Apenas notas em rascunho podem ser emitidas"
           /\ ( Sent(c) /\ Sent(d) )
              => \E i \in RequestsOf(focusRequests, calls[c].nota_id),
                    j \in RequestsOf(focusRequests, calls[c].nota_id) :
                      /\ i # j
                      /\ focusRequests[i].ref = calls[c].focusRef
                      /\ focusRequests[j].ref = calls[d].focusRef
           /\ ( calls[c].pc = "done" /\ calls[d].pc = "done" )
              => /\ Sent(c) /\ Sent(d)
                 /\ Cardinality(RequestsOf(focusRequests, calls[c].nota_id)) >= 2

C15_Witness ==
    \E c \in CallIds, d \in CallIds :
        /\ c # d
        /\ ReadDraft(c) /\ ReadDraft(d)
        /\ calls[c].nota_id = calls[d].nota_id
        /\ calls[c].pc = "done" /\ calls[d].pc = "done"
        /\ calls[c].result = "success" /\ calls[d].result = "success"
        /\ calls[c].focusRef # calls[d].focusRef
        /\ Cardinality(RequestsOf(focusRequests, calls[c].nota_id)) = 2

\* C16: at every step of an emit call made for a tenant, every document of
\* another tenant and the configuration row (with its counters) of every
\* other tenant are as they were when the call was made, and every event
\* row the call added is attributed to the tenant of the call and names a
\* document of that tenant; this for every document id given as input.
C16_IsolamentoDeTenant ==
    \A c \in CallIds :
        ( calls[c].pc # "idle" /\ calls[c].orgId # NoOrg )
        => /\ \A id \in NotaIds :
                calls[c].antes.notas_fiscais[id].organization_id # calls[c].orgId
                => notas_fiscais[id] = calls[c].antes.notas_fiscais[id]
           /\ \A org \in Orgs \ {calls[c].orgId} :
                fiscal_config[org] = calls[c].antes.fiscal_config[org]
           /\ \A i \in 1..Len(EventosDaChamada(c)) :
                /\ EventosDaChamada(c)[i].organization_id = calls[c].orgId
                /\ notas_fiscais[EventosDaChamada(c)[i].nota_fiscal_id].organization_id
                     = calls[c].orgId

C16_Witness ==
    \E c \in CallIds :
        /\ calls[c].orgId = OrgB
        /\ calls[c].nota_id \in NotaIds
        /\ calls[c].antes.notas_fiscais[calls[c].nota_id].organization_id = OrgA
        /\ calls[c].antes.notas_fiscais[calls[c].nota_id].tipo = calls[c].tool
        /\ calls[c].antes.notas_fiscais[calls[c].nota_id].status = "rascunho"
        /\ calls[c].pc = "done"
        /\ notas_fiscais[calls[c].nota_id].status = "rascunho"
        /\ Len(fiscal_eventos) > 0

\* C17: when the store rejects the insert of the event row, the call goes
\* on as if it had been accepted: after a gateway response the document
\* keeps the status mapped from the response and the call returns the
\* success result; after a failed submission the document stays in 'erro'
\* and the call returns the emission-error text.
C17_FalhaDoEventoNaoDesfaz ==
    \A c \in CallIds :
        ( /\ calls[c].pc \in {"reler", "done"}
          /\ calls[c].focusRef # NoRef
          /\ EventosDaChamada(c) = <<>> )
        => /\ calls[c].response # NoRow
              => /\ calls[c].err = NULL
                 /\ notas_fiscais[calls[c].nota_id].status
                      = StatusEsperado(calls[c].tool, calls[c].response.status)
                 /\ calls[c].pc = "done"
                    => /\ calls[c].result = "success"
                       /\ calls[c].notaAtualizada = notas_fiscais[calls[c].nota_id]
           /\ calls[c].response = NoRow
              => /\ notas_fiscais[calls[c].nota_id].status = "erro"
                 /\ calls[c].result \in {"Erro ao emitir NFe", "Erro ao emitir NFSe"}

C17_Witness ==
    \E c \in CallIds :
        /\ calls[c].pc = "done"
        /\ calls[c].response # NoRow
        /\ calls[c].response.status = "autorizado"
        /\ EventosDaChamada(c) = <<>>
        /\ notas_fiscais[calls[c].nota_id].status = "autorizada"
        /\ calls[c].result = "success"

\* The texts an emit call returns to its caller.
ReturnedTexts ==
    ValidationTexts \cup NotFoundTexts
    \cup {"Erro: orgId obrigatorio", "success", "Erro ao emitir NFe", "Erro ao emitir NFSe"}

\* C18: every emit call that ends, ends by returning a text: none ends with
\* an exception thrown out of the handler.
C18_SemExcecao ==
    \A c \in CallIds :
        calls[c].pc = "done" => calls[c].result \in ReturnedTexts

\* C19: every emit call that has started eventually returns, and a call
\* waiting for the answer of the gateway eventually stops waiting.
C19_SemBloqueio ==
    \A c \in CallIds :
        /\ Active(c) ~> (calls[c].pc = "done")
        /\ InFlight(c) ~> ~InFlight(c)

\* A credential that is unset or the empty string.
Empty(v) == v = NULL \/ v = ""

\* The slot the configured environment selects, and the other one.
SlotDoAmbiente(cfg) ==
    IF cfg.focus_nfe_ambiente = "producao" THEN cfg.focus_nfe_token_producao
    ELSE cfg.focus_nfe_token_homologacao

OutroSlot(cfg) ==
    IF cfg.focus_nfe_ambiente = "producao" THEN cfg.focus_nfe_token_homologacao
    ELSE cfg.focus_nfe_token_producao

\* The credential the priority rule gives (NULL: none).
TokenEsperado(cfg, master) ==
    CASE ~Empty(SlotDoAmbiente(cfg)) -> SlotDoAmbiente(cfg)
      [] Empty(SlotDoAmbiente(cfg)) /\ ~Empty(cfg.focus_nfe_token) -> cfg.focus_nfe_token
      [] Empty(SlotDoAmbiente(cfg)) /\ Empty(cfg.focus_nfe_token) /\ ~Empty(master) -> master
      [] OTHER -> NULL

\* The requests the gateway received since the call was made.
RequestsDaChamada(c) ==
    SubSeq(focusRequests, Len(calls[c].antes.focusRequests) + 1, Len(focusRequests))

\* C20: a call that reaches the submission resolves the credential by the
\* priority rule: its request carries the token of the slot of the
\* configured environment when that is not empty, else the legacy token,
\* else the master token; the resolution fails, and no request is made, only
\* when the three are empty; the token of the other slot is never sent.
C20_PrioridadeDoToken ==
    \A c \in CallIds :
        ( calls[c].focusRef # NoRef /\ calls[c].pc # "enviar" )
        => LET cfg == ConfigBefore(c)
               esperado == TokenEsperado(cfg, env.FOCUS_NFE_MASTER_TOKEN)
           IN  /\ esperado = NULL
                  => /\ calls[c].err = "Token Focus NFe nao configurado"
                     /\ RequestsDaChamada(c) = <<>>
               /\ esperado # NULL
                  => /\ Len(RequestsDaChamada(c)) = 1
                     /\ RequestsDaChamada(c)[1].token = esperado
                     /\ ~Empty(RequestsDaChamada(c)[1].token)
                     /\ ( ~Empty(OutroSlot(cfg)) /\ OutroSlot(cfg) # SlotDoAmbiente(cfg) )
                        => RequestsDaChamada(c)[1].token # OutroSlot(cfg)

C20_Witness ==
    \E c \in CallIds :
        /\ calls[c].pc = "done"
        /\ calls[c].focusRef # NoRef
        /\ ConfigBefore(c).focus_nfe_ambiente = "producao"
        /\ ConfigBefore(c).focus_nfe_token_producao = ""
        /\ ConfigBefore(c).focus_nfe_token_homologacao = "tok_hom"
        /\ ConfigBefore(c).focus_nfe_token = "tok_leg"
        /\ env.FOCUS_NFE_MASTER_TOKEN = "tok_master"
        /\ Len(RequestsDaChamada(c)) = 1
        /\ RequestsDaChamada(c)[1].token = "tok_leg"

\* The goods payload items a call sent to the gateway: those of the request
\* made with the reference id of the call.
PayloadsOf(c) ==
    { focusRequests[k].items :
        k \in { j \in DOMAIN focusRequests :
                  /\ calls[c].tool = "nfe"
                  /\ calls[c].focusRef # NoRef
                  /\ focusRequests[j].ref = calls[c].focusRef } }

\* The stored line items a payload item was built from: with no code of
\* their own, those whose id starts with the product code of the payload item.
StoredOf(c, item) ==
    { r \in ItensBefore(c) : Substring8(r.id) = item.codigo_produto }

\* The line item is under tax substitution: its ICMS tax situation is 500,
\* tax already collected by substitution.
SubstituicaoTributaria(r) == r.icms_cst = "500"

\* C21: in every goods payload sent, a line item stored with a CFOP keeps
\* it, and one stored without gets the code of its case: the internal
\* operation code when the region code of the recipient equals the tenant's
\* up to letter case and the interstate code otherwise, in the variant for
\* tax substitution when the item is under tax substitution and in the
\* plain variant when it is not.
C21_CfopPorRegiao ==
    \A c \in CallIds : \A p \in PayloadsOf(c) : \A i \in DOMAIN p :
        /\ StoredOf(c, p[i]) # {}
        /\ \A r \in StoredOf(c, p[i]) :
              IF Truthy(r.cfop) THEN p[i].cfop = r.cfop
              ELSE p[i].cfop
                     = getCfopVenda(ToUpperCase(ConfigBefore(c).uf)
                                      = ToUpperCase(DocBefore(c).destinatario_uf),
                                    SubstituicaoTributaria(r))

\* C25: in every goods payload sent, the payload items are as many as the
\* stored line items of the document, each stored item is the origin of
\* exactly one payload item, the payload follows the stored sequence numbers
\* in ascending order, and the payload items are numbered 1, 2, ..., n.
C25_ItensRenumerados ==
    \A c \in CallIds : \A p \in PayloadsOf(c) :
        /\ Len(p) = Cardinality(ItensBefore(c))
        /\ \A r \in ItensBefore(c) :
              Cardinality({ i \in DOMAIN p : r \in StoredOf(c, p[i]) }) = 1
        /\ \A i \in DOMAIN p : Cardinality(StoredOf(c, p[i])) = 1
        /\ \A i, j \in DOMAIN p :
              i < j => \A r \in StoredOf(c, p[i]), q \in StoredOf(c, p[j]) :
                         r.numero_item <= q.numero_item
        /\ \A i \in DOMAIN p : p[i].numero_item = i

\* A payload was sent for a document whose three items are stored with the
\* sequence numbers 4, 2, 2: a start other than 1, a gap and a duplicate.
C25_Witness ==
    \E c \in CallIds : \E p \in PayloadsOf(c) :
        /\ { r.numero_item : r \in ItensBefore(c) } = {2, 4}
        /\ Cardinality(ItensBefore(c)) = 3
        /\ \E r \in ItensBefore(c) : r.id = ItemIds[1] /\ r.numero_item = 4
        /\ Len(p) = 3
        /\ p[3].codigo_produto = Substring8(ItemIds[1])
        /\ p[3].numero_item = 3

\* C22: no two emission attempts carry the same reference id: the reference
\* ids generated by two calls differ, and no two requests received by the
\* gateway present the same one.
C22_RefUnicaPorTentativa ==
    /\ \A c, d \in CallIds :
          ( c # d /\ calls[c].focusRef # NoRef /\ calls[d].focusRef # NoRef )
          => calls[c].focusRef # calls[d].focusRef
    /\ \A i, j \in DOMAIN focusRequests :
          i # j => focusRequests[i].ref # focusRequests[j].ref

\* The active rows of api_keys whose hash is that of the key.
RowsOfKey(key) == { r \in api_keys : r.key_hash = Sha256(key) /\ r.active }

\* C23: a call of resolveOrgId with a key that is not the master key ends
\* with the organization of the one active row of that key, whatever
\* orgIdOverride and GV_ORG_ID are, or with the Error when no such row
\* exists; only with the master key is the result orgIdOverride, else
\* GV_ORG_ID, else null, the api_keys table not being consulted.
C23_OverrideSoComMaster ==
    authCall.pc = "done" /\ Truthy(authCall.key)
    => IF Truthy(env.MASTER_API_KEY) /\ authCall.key = env.MASTER_API_KEY
       THEN /\ authCall.err = NULL
            /\ authCall.orgId =
                 ( IF TruthyOrg(authCall.orgIdOverride) THEN authCall.orgIdOverride
                   ELSE IF TruthyOrg(env.GV_ORG_ID) THEN env.GV_ORG_ID
                   ELSE NoOrg )
       ELSE IF Cardinality(RowsOfKey(authCall.key)) = 1
       THEN /\ authCall.err = NULL
            /\ \A r \in RowsOfKey(authCall.key) : authCall.orgId = r.organization_id
       ELSE /\ authCall.err = "API key invalida"
            /\ authCall.orgId = NoOrg

\* The key of tenant A was presented with orgIdOverride and GV_ORG_ID both
\* naming tenant B, in a process with a master key, and resolved to tenant A.
C23_Witness ==
    /\ authCall.pc = "done"
    /\ authCall.apiKey = "gv_key_a"
    /\ authCall.orgIdOverride = OrgB
    /\ env.GV_ORG_ID = OrgB
    /\ env.MASTER_API_KEY = "gv_master"
    /\ authCall.orgId = OrgA

\* C24: a last-used-number counter of a tenant changes only in a step of an
\* emit call of that tenant whose mapped status is 'autorizada' and whose
\* gateway response carries a number, and it is the counter of the kind
\* that call emits; so calls that end rejected, processing, in error, not
\* found or refused by a validation change neither counter.
C24_ContadorSoQuandoAutorizada ==
    [][ \A o \in Orgs :
          fiscal_config[o] # NoRow
          => \A campo \in {"nfe_ultimo_numero", "nfse_ultimo_numero"} :
               fiscal_config'[o][campo] # fiscal_config[o][campo]
               => \E c \in CallIds :
                    /\ calls'[c] # calls[c]
                    /\ calls[c].orgId = o
                    /\ calls[c].status = "autorizada"
                    /\ calls[c].response.numero # <<>>
                    /\ campo = ( IF calls[c].tool = "nfe" THEN "nfe_ultimo_numero"
                                 ELSE "nfse_ultimo_numero" ) ]_vars

\* A service document was authorized with a number: the counter of service
\* documents of the tenant changed and its counter of goods documents did not.
C24_Witness ==
    \E c \in CallIds :
        /\ calls[c].pc = "done"
        /\ calls[c].tool = "nfse"
        /\ calls[c].status = "autorizada"
        /\ fiscal_config[calls[c].orgId].nfse_ultimo_numero
             # ConfigBefore(c).nfse_ultimo_numero
        /\ fiscal_config[calls[c].orgId].nfe_ultimo_numero
             = ConfigBefore(c).nfe_ultimo_numero

\* C26: once a document is stored as 'autorizada' or 'rejeitada', no step
\* of any emit call, overlapping or not, changes its stored status, its
\* reference id, its gateway status or its number.
C26_FinalEstavel ==
    [][ \A id \in NotaIds :
          notas_fiscais[id].status \in {"autorizada", "rejeitada"}
          => /\ notas_fiscais'[id].status = notas_fiscais[id].status
             /\ notas_fiscais'[id].focus_nfe_ref = notas_fiscais[id].focus_nfe_ref
             /\ notas_fiscais'[id].focus_nfe_status = notas_fiscais[id].focus_nfe_status
             /\ notas_fiscais'[id].numero = notas_fiscais[id].numero ]_vars

\* The event rows written for the document of the call since it was made.
EventosDoDocumento(c) ==
    { i \in (Len(calls[c].antes.fiscal_eventos) + 1)..Len(fiscal_eventos) :
        fiscal_eventos[i].nota_fiscal_id = calls[c].nota_id }

\* C27: when an emit call that is not overlapped by another has ended and
\* wrote an event, the event is of kind 'erro' exactly when the document is
\* stored as 'erro', and of kind 'emissao' exactly when it is stored as
\* 'autorizada', 'rejeitada' or 'processando'.
C27_EventoConformeResultado ==
    \A c \in CallIds :
        ( calls[c].pc = "done" /\ calls[c].nota_id \in NotaIds )
        => \A i \in EventosDoDocumento(c) :
             /\ fiscal_eventos[i].tipo \in {"erro", "emissao"}
             /\ fiscal_eventos[i].tipo = "erro"
                  <=> notas_fiscais[calls[c].nota_id].status = "erro"
             /\ fiscal_eventos[i].tipo = "emissao"
                  <=> notas_fiscais[calls[c].nota_id].status
                        \in {"autorizada", "rejeitada", "processando"}

\* A call answered with a gateway rejection ended: the document is stored
\* as 'rejeitada' and the event of the call is of kind 'emissao'.
C27_Witness ==
    \E c \in CallIds :
        /\ calls[c].pc = "done"
        /\ calls[c].nota_id \in NotaIds
        /\ notas_fiscais[calls[c].nota_id].status = "rejeitada"
        /\ \E i \in EventosDoDocumento(c) : fiscal_eventos[i].tipo = "emissao"

\* C28: every step of a call of emit_nfe, emit_nfse, list_notas_fiscais or
\* get_nota_fiscal on a server created without a tenant is the whole call:
\* it returns 'Erro: orgId obrigatorio' having read nothing from the store
\* (no document, items, configuration or list in its locals), and the
\* tables and the requests received by the gateway are as before the step.
C28_SemOrgIdNadaFeito ==
    [][ \A c \in CallIds :
          ( calls'[c] # calls[c] /\ calls'[c].orgId = NoOrg /\ calls'[c].pc # "idle" )
          => /\ calls'[c].pc = "done"
             /\ calls'[c].result = "Erro: orgId obrigatorio"
             /\ calls'[c].nota = NoRow
             /\ calls'[c].itens = <<>>
             /\ calls'[c].cfg = NoRow
             /\ calls'[c].lista = NoRow
             /\ calls'[c].notaAtualizada = NoRow
             /\ calls'[c].focusRef = NoRef
             /\ UNCHANGED <<notas_fiscais, notas_fiscais_itens, fiscal_config,
                            fiscal_eventos, focusRequests>> ]_vars

\* A server without a tenant was asked for the draft n1 after an earlier
\* call: the call returned the text with no document or items read, and n1
\* is still a draft.
C28_Witness ==
    \E c \in CallIds :
        /\ started > 1
        /\ calls[c].pc = "done" /\ calls[c].tool = "get" /\ calls[c].orgId = NoOrg
        /\ calls[c].nota_id = "n1"
        /\ calls[c].result = "Erro: orgId obrigatorio"
        /\ calls[c].nota = NoRow
        /\ notas_fiscais["n1"].status = "rascunho"
        /\ focusRequests = <<>>

\* Tenant resolution succeeds for the key: it is the master key, or exactly
\* one active row of api_keys has its hash.
ResolucaoOk(apiKey) ==
    \/ Truthy(env.MASTER_API_KEY) /\ apiKey = env.MASTER_API_KEY
    \/ Cardinality(RowsOfKey(apiKey)) = 1

\* The header carries a Bearer token, and tenant resolution succeeds for it.
BearerOk(authorization) ==
    /\ authorization # <<>>
    /\ authorization[1] = "Bearer "
    /\ Trim(authorization[2]) # ""
    /\ ResolucaoOk(Trim(authorization[2]))

\* The request is a POST of another message than initialize, or a GET.
NeedsSession(r) ==
    \/ httpReqs[r].method = "GET"
    \/ httpReqs[r].method = "POST" /\ httpReqs[r].body = "tools/call"

\* C29: every session in the map was registered by an initialize POST whose
\* header Authorization carried a Bearer token for which tenant resolution
\* succeeded; an initialize without a token or with an invalid key is
\* answered 401 and creates no session; a GET or a POST of another message
\* whose Mcp-Session-Id is missing or not in the map is answered 400 and
\* handed to no transport; and the id of a session that was in the map
\* when its DELETE arrived and whose DELETE has ended, or whose transport has
\* closed, is not in the map.
C29_MapaDeSessoes ==
    /\ \A id \in DOMAIN sessions : BearerOk(sessions[id].authorization)
    /\ \A r \in ReqIds :
          ( /\ httpReqs[r].body = "initialize"
            /\ httpReqs[r].pc # "idle"
            /\ ~BearerOk(httpReqs[r].authorization) )
          => /\ httpReqs[r].pc \in {"select", "done"}
             /\ httpReqs[r].pc = "done" => httpReqs[r].status = 401
             /\ httpReqs[r].sessionId = NULL
             /\ httpReqs[r].dispatched = NULL
    /\ \A r \in ReqIds :
          ( /\ NeedsSession(r)
            /\ httpReqs[r].sessionHeader = NULL
                \/ httpReqs[r].sessionHeader \notin httpReqs[r].antes )
          => /\ httpReqs[r].pc = "done"
             /\ httpReqs[r].status = 400
             /\ httpReqs[r].dispatched = NULL
    /\ \A r \in ReqIds :
          ( /\ httpReqs[r].method = "DELETE"
            /\ httpReqs[r].pc = "done"
            /\ httpReqs[r].sessionHeader \in httpReqs[r].antes )
          => httpReqs[r].sessionHeader \notin DOMAIN sessions
    /\ \A id \in DOMAIN transports :
          transports[id] = "closed" => id \notin DOMAIN sessions

\* The budget row call k of create_orcamento made, if it is in the table.
OrcamentoDaChamada(k) == { o \in orcamentos : o.id = orcCall[k].n }

\* The item rows of the budget of call k.
ItensDaChamada(k) == { i \in orcamento_itens : i.orcamento_id = orcCall[k].n }

\* C30: after a call of create_orcamento has returned, either the budget
\* row of the call is in the table with all its items and the tenant's
\* monthly counter is one more than before the call, or no budget row and no
\* item of the call is in the tables and the counter is as before the call.
C30_TudoOuNada ==
    \A k \in CallIds :
        (orcCall[k].tool = "create_orcamento" /\ orcCall[k].pc = "done") =>
            \/ /\ TruthyOrg(orcCall[k].orgId)
               /\ OrcamentoDaChamada(k) # {}
               /\ ItensDaChamada(k) = ItensParaInserir(orcCall[k].n, orcCall[k].input.itens)
               /\ usage[orcCall[k].orgId].quotes_used
                    = orcCall[k].antes.usage[orcCall[k].orgId].quotes_used + 1
               /\ \A o \in Orgs \ {orcCall[k].orgId} : usage[o] = orcCall[k].antes.usage[o]
            \/ /\ OrcamentoDaChamada(k) = {}
               /\ ItensDaChamada(k) = {}
               /\ usage = orcCall[k].antes.usage

====
